---------------------------- MODULE Spec2Model ----------------------------
(***************************************************************************)
(* A model of ai-docgen: the rule-based annotators of backend/generators.py *)
(* and the request handlers of backend/main.py.                            *)
(*                                                                         *)
(* Python strings are TLA+ strings.  A text (a str that may hold line      *)
(* breaks) is the non-empty sequence of the pieces between its "\n"        *)
(* characters, so "a\nb\n" is <<"a", "b", "">> and "" is <<"">>.  A piece   *)
(* keeps its own leading and trailing blanks and, before the CRLF          *)
(* normalisation, a trailing "\r".  Two characters of the source's string   *)
(* literals cannot be written in a TLA+ string: the backquote is written   *)
(* ^ and the em dash is written --.                                        *)
(***************************************************************************)
EXTENDS Naturals, Sequences, FiniteSets, TLC

-----------------------------------------------------------------------------
(* Bounds of the model.                                                    *)

\* the longest input text, in pieces
MaxLines == 3
\* the number of successive runs followed on a source unit
MaxRuns == 2
\* the number of lines of the texts submitted with the use_ai choice
MaxRequestLines == 1
\* the number of members of an uploaded ZIP
MaxMembers == 3
\* the number of lines of the Python texts parsed
MaxPythonLines == 2

-----------------------------------------------------------------------------
(* str primitives.                                                         *)

\* s[i:i+1] with 1-based i: the empty string beyond the ends
Char(s, i) == IF i >= 1 /\ i <= Len(s) THEN SubSeq(s, i, i) ELSE ""

Min(S) == CHOOSE x \in S : \A y \in S : x <= y
Max(S) == CHOOSE x \in S : \A y \in S : x >= y

\* str.startswith(p)
StartsWith(s, p) == Len(s) >= Len(p) /\ SubSeq(s, 1, Len(p)) = p

\* s.startswith((p1, p2, ...))
StartsWithAny(s, ps) == \E p \in ps : StartsWith(s, p)

\* str.endswith(p)
EndsWith(s, p) == Len(s) >= Len(p) /\ SubSeq(s, Len(s) - Len(p) + 1, Len(s)) = p

\* s starts with p at position i
MatchAt(s, i, p) ==
    i >= 1 /\ i + Len(p) - 1 <= Len(s) /\ SubSeq(s, i, i + Len(p) - 1) = p

Contains(s, p) == Len(p) <= Len(s) /\ \E i \in 1..(Len(s) - Len(p) + 1) : MatchAt(s, i, p)

\* the characters str.strip() removes and \s matches
IsSpace(c) == c \in {" ", "\t", "\r", "\n", "\f"}

IsDigit(c) == c \in {"0", "1", "2", "3", "4", "5", "6", "7", "8", "9"}

UpperLetters == "ABCDEFGHIJKLMNOPQRSTUVWXYZ"
LowerLetters == "abcdefghijklmnopqrstuvwxyz"

UpperSet == {Char(UpperLetters, i) : i \in 1..26}
LowerSet == {Char(LowerLetters, i) : i \in 1..26}

\* the lower-case letter of each upper-case letter
ToLower == [c \in UpperSet |-> Char(LowerLetters, CHOOSE i \in 1..26 : Char(UpperLetters, i) = c)]

IsUpper(c) == c \in UpperSet

\* \w of the re module, on ASCII
IsWordChar(c) == IsUpper(c) \/ c \in LowerSet \/ IsDigit(c) \/ c = "_"

LowerChar(c) == IF IsUpper(c) THEN ToLower[c] ELSE c

RECURSIVE LowerFrom(_, _)
LowerFrom(s, i) ==
    IF i > Len(s) THEN "" ELSE LowerChar(Char(s, i)) \o LowerFrom(s, i + 1)

\* str.lower()
Lower(s) == LowerFrom(s, 1)

\* the index after the run of white space that starts at i
RECURSIVE SkipSpaces(_, _)
SkipSpaces(s, i) ==
    IF i > Len(s) \/ ~IsSpace(Char(s, i)) THEN i ELSE SkipSpaces(s, i + 1)

\* the index before the run of white space that ends at i
RECURSIVE SkipSpacesBack(_, _)
SkipSpacesBack(s, i) ==
    IF i < 1 \/ ~IsSpace(Char(s, i)) THEN i ELSE SkipSpacesBack(s, i - 1)

\* the index of the first character that is not white space, Len(s) + 1 if none
FirstNonSpace(s) == SkipSpaces(s, 1)

\* the index of the last character that is not white space, 0 if none
LastNonSpace(s) == SkipSpacesBack(s, Len(s))

\* re.match(r"^\s*", line).group(0)
Indent(s) == SubSeq(s, 1, FirstNonSpace(s) - 1)

RStripStr(s) == SubSeq(s, 1, LastNonSpace(s))

\* str.strip() of a string without line breaks
StripStr(s) == SubSeq(s, FirstNonSpace(s), LastNonSpace(s))

IsBlank(s) == FirstNonSpace(s) > Len(s)

\* a word boundary \b between positions i - 1 and i of s
WordBoundary(s, i) ==
    LET before == i > 1 /\ i - 1 <= Len(s) /\ IsWordChar(Char(s, i - 1))
        after  == i >= 1 /\ i <= Len(s) /\ IsWordChar(Char(s, i))
    IN  before # after

\* the index after the digits of s from i
SkipDigits(s, i) ==
    LET Stop(stops) == IF stops = {} THEN Len(s) + 1 ELSE Min(stops)
    IN  IF i > Len(s) THEN i ELSE Stop({j \in i..Len(s) : ~IsDigit(Char(s, j))})

RECURSIVE LastIndexBefore(_, _, _)
LastIndexBefore(s, c, i) ==
    IF i < 1 \/ Char(s, i) = c THEN i ELSE LastIndexBefore(s, c, i - 1)

-----------------------------------------------------------------------------
(* Texts.                                                                  *)

Last(q) == q[Len(q)]

\* "\n".join(list), for a list whose members hold no line break
Join(list) == IF list = <<>> THEN <<"">> ELSE list

\* s.split("\n"): the pieces of a string between its line breaks
SplitNewline(s) ==
    LET breaks   == {p \in 1..Len(s) : SubSeq(s, p, p) = "\n"}
        Break(n) == CHOOSE p \in breaks : Cardinality({q \in breaks : q < p}) = n - 1
    IN  IF breaks = {} THEN <<s>>
        ELSE [n \in 1..(Cardinality(breaks) + 1) |->
                SubSeq(s, IF n = 1 THEN 1 ELSE Break(n - 1) + 1,
                          IF n = Cardinality(breaks) + 1 THEN Len(s) ELSE Break(n) - 1)]

\* the pieces of "\n".join(list) that the members of a non-empty list give,
\* for a list whose members may hold line breaks
JoinBroken(list) ==
    LET pieces    == [i \in 1..Len(list) |-> SplitNewline(list[i])]
        Before(i) == Cardinality({ip \in UNION {{<<j, p>> : p \in 1..Len(pieces[j])} : j \in 1..(i - 1)} : TRUE})
        Member(k) == CHOOSE i \in 1..Len(list) : Before(i) < k /\ k <= Before(i) + Len(pieces[i])
    IN  IF \A i \in 1..Len(list) : Len(pieces[i]) = 1 THEN list
        ELSE [k \in 1..Before(Len(list) + 1) |-> pieces[Member(k)][k - Before(Member(k))]]

\* text.splitlines(), for a text whose only line breaks are "\n"
Splitlines(text) == IF Last(text) = "" THEN SubSeq(text, 1, Len(text) - 1) ELSE text

\* text + "\n"
AppendNewline(text) == Append(text, "")

\* text.replace("\r\n", "\n"): a "\r" that ends a piece before a "\n"
CrlfToLf(text) ==
    [i \in 1..Len(text) |->
        IF i < Len(text) /\ EndsWith(text[i], "\r")
        THEN SubSeq(text[i], 1, Len(text[i]) - 1)
        ELSE text[i]]

\* text.rstrip() with a fault: nothing is stripped
RStripText_nothing(text) == text

\* text.rstrip()
RStripText(text) ==
    LET I == {i \in 1..Len(text) : ~IsBlank(text[i])}
    IN  IF I = {} THEN <<"">>
        ELSE LET b == Max(I)
             IN  [i \in 1..b |-> IF i = b THEN RStripStr(text[i]) ELSE text[i]]

\* text.strip()
StripText(text) ==
    LET I == {i \in 1..Len(text) : ~IsBlank(text[i])}
    IN  IF I = {} THEN <<"">>
        ELSE LET a == Min(I)
                 b == Max(I)
             IN  [k \in 1..(b - a + 1) |->
                    LET i == a + k - 1
                        l == IF i = a THEN SubSeq(text[i], FirstNonSpace(text[i]), Len(text[i])) ELSE text[i]
                    IN  IF i = b THEN RStripStr(l) ELSE l]


-----------------------------------------------------------------------------
(* generators.py: shared helpers.                                          *)

AUTO_MARKERS ==
    << "Professional beginner-friendly comments",
       "Beginner-friendly comments (auto-added)",
       "Beginner-friendly notes (auto-added)",
       "Beginner-friendly CSS notes (auto-added)",
       "Beginner-friendly JS notes (auto-added)",
       "Beginner-friendly Java notes (auto-added)",
       "Professional beginner-friendly notes",
       "Professional beginner-friendly CSS notes",
       "Professional beginner-friendly JS notes",
       "Professional beginner-friendly Java notes" >>

\* m.lower() of each marker
LoweredMarkers == {Lower(AUTO_MARKERS[k]) : k \in 1..Len(AUTO_MARKERS)}

\* m in line.lower(), for a lower-case m: the lower-cased piece of line at some
\* position is m
ContainsLowered(line, m) ==
    /\ Len(m) <= Len(line)
    /\ \E i \in 1..(Len(line) - Len(m) + 1) :
            /\ LowerChar(Char(line, i)) = Char(m, 1)
            /\ Lower(SubSeq(line, i, i + Len(m) - 1)) = m

\* the loop of _clean_existing_auto_headers from line i on: the lines kept
RECURSIVE CleanLoop(_, _, _)
CleanLoop(lines, i, skipping) ==
    IF i > Len(lines) THEN <<>>
    ELSE IF \E m \in LoweredMarkers : ContainsLowered(lines[i], m) THEN CleanLoop(lines, i + 1, TRUE)
    ELSE IF skipping THEN CleanLoop(lines, i + 1, StripStr(lines[i]) # "")
    ELSE <<lines[i]>> \o CleanLoop(lines, i + 1, FALSE)

_clean_existing_auto_headers(code) ==
    LET Ended(cleaned) == IF Len(code) >= 2 /\ Last(code) = "" THEN AppendNewline(cleaned) ELSE cleaned
    IN  Ended(StripText(Join(CleanLoop(Splitlines(code), 1, FALSE))))

\* the lines a loop appends for a line: its comment c, if it has one, at the
\* indentation of the line, then the line
WithComment(line, c) ==
    IF c # <<>> THEN <<Indent(line) \o c[1], line>> ELSE <<line>>

BaseOr(file_path, default) ==
    IF file_path # ""
    THEN SubSeq(file_path, LastIndexBefore(file_path, "/", Len(file_path)) + 1, Len(file_path))
    ELSE default

_filename_title(file_path, language) ==
    BaseOr(file_path, "pasted_code") \o " (" \o language \o ")"

Bullets(xs) == [i \in 1..Len(xs) |-> "- " \o xs[i]]

_doc_sectioned_no_code(title, what_it_does, requirements, how_to_run, logic, examples, edge_cases) ==
    LET lines == SplitNewline("# " \o title) \o << "", "## What it does" >> \o Bullets(what_it_does)
                 \o << "", "## Requirements" >> \o Bullets(requirements)
                 \o << "", "## How to run" >> \o JoinBroken(how_to_run)
                 \o << "", "## Explanation of logic" >> \o Bullets(logic)
                 \o << "", "## Example input/output" >> \o Bullets(examples)
                 \o << "", "## Edge cases / notes" >> \o Bullets(edge_cases)
                 \o << "" >>
    IN  AppendNewline(StripText(Join(lines)))


-----------------------------------------------------------------------------
(* generators.py: Python.  ast.parse is modelled on the statement lines of *)
(* PyLexicon: a logical line is one of them or a syntax error, comment and *)
(* blank lines are skipped, and blocks follow the indentation rules of the *)
(* tokenizer.  The error of a text that does not parse is the exception's   *)
(* class and message, without the position ast.parse adds to it.  An       *)
(* exception that leaves a function is the field raised of its result, ""  *)
(* when it returns.                                                        *)

NoExpr == [node |-> "None"]
Name(id) == [node |-> "Name", id |-> id]
Num(text) == [node |-> "Constant", isStr |-> FALSE, text |-> text]
Compare(left, op, right) == [node |-> "Compare", left |-> left, op |-> op, right |-> right]
BinOp(left, op, right) == [node |-> "BinOp", left |-> left, op |-> op, right |-> right]
Call(func, args) == [node |-> "Call", func |-> func, args |-> args]

Stmt(kind, name, expr) == [kind |-> kind, name |-> name, expr |-> expr]

\* the statement lines ast.parse is modelled on, each with the node it yields
PyLexicon ==
    [ s \in { "import os", "from os import path", "def add(a, b):", "class Account:",
              "return a + b", "return", "return None", "if x < 0:", "if not items:",
              "for item in items:", "x = 1", "items.append(x)",
              "parts = text.split(sep, 2)" } |->
        CASE s = "import os"           -> Stmt("Import", "os", NoExpr)
          [] s = "from os import path" -> Stmt("ImportFrom", "os", NoExpr)
          [] s = "def add(a, b):"      -> Stmt("FunctionDef", "add", NoExpr)
          [] s = "class Account:"      -> Stmt("ClassDef", "Account", NoExpr)
          [] s = "return a + b"        -> Stmt("Return", "", BinOp(Name("a"), "Add", Name("b")))
          [] s = "return"              -> Stmt("Return", "", NoExpr)
          [] s = "return None"         -> Stmt("Return", "", Num("None"))
          [] s = "if x < 0:"           -> Stmt("If", "", Compare(Name("x"), "Lt", Num("0")))
          [] s = "if not items:"       -> Stmt("If", "", [node |-> "UnaryOp", op |-> "Not", operand |-> Name("items")])
          [] s = "for item in items:"  -> Stmt("For", "", Name("items"))
          [] s = "x = 1"               -> Stmt("Assign", "", Num("1"))
          [] s = "items.append(x)"     -> Stmt("Expr", "", Call(Name("items.append"), <<Name("x")>>))
          [] s = "parts = text.split(sep, 2)" ->
                Stmt("Assign", "", Call(Name("text.split"), <<Name("sep"), Num("2")>>)) ]

\* a line the tokenizer skips: blank, or a comment
PySkipped(line) == IsBlank(line) \/ StartsWith(StripStr(line), "#")

\* the column of a logical line: the width of its indentation
PyWidth(line) == Len(Indent(line))

PyIsStatement(line) == StripStr(line) \in DOMAIN PyLexicon

PyNode(line) == PyLexicon[StripStr(line)]

\* the statements that open an indented block
PyOpens(line) ==
    PyIsStatement(line) /\ PyNode(line).kind \in {"FunctionDef", "ClassDef", "If", "For"}

PopTo(stack, w) == SubSeq(stack, 1, Max({k \in 1..Len(stack) : stack[k] = w}))

\* the parse of lines i.. with the open indentation levels in stack; expect:
\* the line before opened a block.  "" when the lines parse, else the error
RECURSIVE PyParseFrom(_, _, _, _)
PyParseFrom(lines, i, stack, expect) ==
    IF i > Len(lines)
    THEN IF expect THEN "IndentationError: expected an indented block" ELSE ""
    ELSE IF PySkipped(lines[i]) THEN PyParseFrom(lines, i + 1, stack, expect)
    ELSE LET w   == PyWidth(lines[i])
             top == Last(stack)
         IN  IF expect /\ w <= top
             THEN "IndentationError: expected an indented block"
             ELSE IF ~expect /\ w > top
             THEN "IndentationError: unexpected indent"
             ELSE IF ~expect /\ \A k \in 1..Len(stack) : stack[k] # w
             THEN "IndentationError: unindent does not match any outer indentation level"
             ELSE IF ~PyIsStatement(lines[i])
             THEN "SyntaxError: invalid syntax"
             ELSE PyParseFrom(lines, i + 1,
                              IF expect THEN Append(stack, w) ELSE PopTo(stack, w),
                              PyOpens(lines[i]))

\* ast.parse(code): the exception it raises, "" if it returns a tree
AstParseError(code) == PyParseFrom(Splitlines(code), 1, <<0>>, FALSE)

\* the tree of a text that parses: its lines; a node is the number of its line
AstTree(code) == Splitlines(code)

\* the line numbers of the statements of a tree
Statements(tree) == {i \in 1..Len(tree) : ~PySkipped(tree[i])}

\* the statements below the block statement at line n (ast.walk below a node)
Descendants(tree, n) ==
    LET Until(after) ==
            {j \in Statements(tree) :
                n < j /\ j < (IF after = {} THEN Len(tree) + 1 ELSE Min(after))}
    IN  Until({j \in Statements(tree) : j > n /\ PyWidth(tree[j]) <= PyWidth(tree[n])})

\* node.body of the block statement at line n, in order
Body(tree, n) ==
    LET Top(d) == IF d = {} THEN {} ELSE {j \in d : PyWidth(tree[j]) = PyWidth(tree[Min(d)])}
    IN  Top(Descendants(tree, n))

\* the body of the block statement at line n is a single return
SingleReturnBody(tree, n) ==
    LET Is(body) == Cardinality(body) = 1 /\ PyNode(tree[Min(body)]).kind = "Return"
    IN  Is(Body(tree, n))

\* (tree, err) of _safe_parse_python, ok for "tree is not None"
_safe_parse_python(code) ==
    LET Caught(e) ==
            IF e = "" THEN [ok |-> TRUE, tree |-> AstTree(code), err |-> ""]
            ELSE [ok |-> FALSE, tree |-> <<>>, err |-> e]
    IN  Caught(AstParseError(code))

RECURSIVE _py_expr_to_text(_)
_py_expr_to_text(node) ==
    CASE node.node = "Name" -> node.id
      [] node.node = "Constant" ->
            IF node.isStr THEN "\"" \o node.text \o "\"" ELSE node.text
      [] node.node = "Call" ->
            LET fn == _py_expr_to_text(node.func)
            IN  IF EndsWith(fn, "len") /\ node.args # <<>>
                THEN "length of " \o _py_expr_to_text(node.args[1])
                ELSE IF EndsWith(fn, "isalpha") \/ EndsWith(fn, "isdigit") THEN fn \o "() check"
                ELSE IF EndsWith(fn, "strptime") THEN "parse a datetime"
                ELSE IF EndsWith(fn, "split") THEN "split text"
                ELSE IF EndsWith(fn, "lower") THEN "lowercase text"
                ELSE IF EndsWith(fn, "upper") THEN "uppercase text"
                ELSE IF EndsWith(fn, "float") THEN "convert to float"
                ELSE IF EndsWith(fn, "int") THEN "convert to int"
                ELSE IF EndsWith(fn, "str") THEN "convert to string"
                ELSE fn \o "(...)"
      [] node.node = "UnaryOp" ->
            IF node.op = "Not" THEN "not (" \o _py_expr_to_text(node.operand) \o ")"
            ELSE "unary-op(" \o _py_expr_to_text(node.operand) \o ")"
      [] node.node = "Compare" ->
            LET op_text == CASE node.op = "Eq"    -> "equals"
                             [] node.op = "NotEq" -> "does not equal"
                             [] node.op = "Lt"    -> "is less than"
                             [] node.op = "LtE"   -> "is less than or equal to"
                             [] node.op = "Gt"    -> "is greater than"
                             [] node.op = "GtE"   -> "is greater than or equal to"
                             [] node.op = "Is"    -> "is"
                             [] node.op = "IsNot" -> "is not"
                             [] node.op = "In"    -> "is in"
                             [] node.op = "NotIn" -> "is not in"
                             [] OTHER             -> "compares to"
            IN  _py_expr_to_text(node.left) \o " " \o op_text \o " "
                    \o _py_expr_to_text(node.right)
      [] node.node = "BinOp" -> "a calculated value"
      [] OTHER -> "a value"

_py_condition_to_reason(test) == "because " \o _py_expr_to_text(test)

\* the hint of _python_func_one_liner for the def at line n, <<>> for None; of
\* its hints only the one for a body that is a single return is modelled
_python_func_one_liner(tree, n) ==
    IF SingleReturnBody(tree, n) THEN <<"Computes and returns a result.">> ELSE <<>>

\* the def_map comment of the def or class at line n
DefComment(tree, n) ==
    LET Said(node, hint) ==
            IF node.kind = "ClassDef"
            THEN "# Class ^" \o node.name \o "^: a blueprint that groups data and behavior."
            ELSE IF hint # <<>>
            THEN "# Function ^" \o node.name \o "()^: " \o hint[1]
            ELSE "# Function ^" \o node.name \o "()^: runs a reusable set of steps."
    IN  Said(PyNode(tree[n]), _python_func_one_liner(tree, n))

\* the If statements whose body is a single return
EarlyReturnIfs(tree) ==
    {n \in Statements(tree) : PyNode(tree[n]).kind = "If" /\ SingleReturnBody(tree, n)}

\* (def_map, return_reason_map), each a function from line numbers
_python_build_comment_maps(code) ==
    LET Reasons(tree, ifs) ==
            [r \in {Min(Body(tree, n)) : n \in ifs} |->
                "# Stop here "
                \o _py_condition_to_reason(
                        PyNode(tree[CHOOSE n \in ifs : Min(Body(tree, n)) = r]).expr)
                \o "."]
        MapsOf(tree) ==
            [def_map |->
                [n \in {k \in Statements(tree) :
                            PyNode(tree[k]).kind \in {"ClassDef", "FunctionDef"}} |->
                    DefComment(tree, n)],
             return_reason_map |-> Reasons(tree, EarlyReturnIfs(tree))]
        Maps(p) ==
            IF ~p.ok THEN [def_map |-> <<>>, return_reason_map |-> <<>>] ELSE MapsOf(p.tree)
    IN  Maps(_safe_parse_python(code))

\* the matches of \.split\([^)]*,\s*(\d+)\s*\) in s, each as <<start, comma>>
SplitCountMatches(s) ==
    LET Closed(d, e) == e > d /\ Char(s, SkipSpaces(s, e)) = ")"
        Counted(d)   == Closed(d, SkipDigits(s, d))
        starts == {a \in 1..Len(s) : MatchAt(s, a, ".split(")}
        commas == {c \in 1..Len(s) : Char(s, c) = "," /\ Counted(SkipSpaces(s, c + 1))}
    IN  {m \in starts \X commas :
            /\ m[2] >= m[1] + 7
            /\ \A k \in (m[1] + 7)..(m[2] - 1) : Char(s, k) # ")"}

SplitCountDigits(s) ==
    LET Digits(d)           == SubSeq(s, d, SkipDigits(s, d) - 1)
        After(comma)        == Digits(SkipSpaces(s, comma + 1))
        Leftmost(ms, start) == After(Max({m[2] : m \in {x \in ms : x[1] = start}}))
        Of(ms)              == Leftmost(ms, Min({m[1] : m \in ms}))
    IN  Of(SplitCountMatches(s))

\* sys.int_info.default_max_str_digits: the longest digit string int() converts
INT_MAX_STR_DIGITS == 4300

\* the exception of int(digits), "" when it converts
IntRaised(digits) ==
    IF Len(digits) > INT_MAX_STR_DIGITS
    THEN "ValueError: Exceeds the limit (" \o ToString(INT_MAX_STR_DIGITS)
            \o " digits) for integer string conversion"
    ELSE ""

RECURSIVE IntOf(_)
\* int(digits)
IntOf(digits) ==
    IF digits = "" THEN 0
    ELSE 10 * IntOf(SubSeq(digits, 1, Len(digits) - 1)) + (CHOOSE n \in 0..9 : Char("0123456789", n + 1) = Char(digits, Len(digits)))

\* re.search(r"\b(w1|w2|...)\s*\(", s)
CallsOneOf(s, words) ==
    \E i \in 1..Len(s) : \E w \in words :
        /\ MatchAt(s, i, w)
        /\ WordBoundary(s, i)
        /\ Char(s, SkipSpaces(s, i + Len(w))) = "("

\* _py_should_comment_line with a fault: only block statements and imports
\* are commented
_py_should_comment_line_blocks_only(s) ==
    IF s = "" \/ StartsWith(s, "#") THEN FALSE
    ELSE \/ StartsWithAny(s, {"def ", "class ", "if __name__", "for ", "while ", "try:",
                              "except", "with "})
         \/ StartsWithAny(s, {"import ", "from "})

_py_should_comment_line(s) ==
    IF s = "" \/ StartsWith(s, "#") THEN FALSE
    ELSE \/ StartsWithAny(s, {"def ", "class ", "if __name__", "for ", "while ", "try:",
                              "except", "with "})
         \/ StartsWithAny(s, {"import ", "from "})
         \/ Contains(s, "lambda ")
         \/ (Contains(s, " for ") /\ Contains(s, "[") /\ Contains(s, "]"))
         \/ (Contains(s, "join(") /\ Contains(s, " for "))
         \/ (Contains(s, ".split(") /\ SplitCountMatches(s) # {})
         \/ Contains(s, "datetime.strptime")
         \/ StartsWith(s, "@dataclass") \/ Contains(s, "dataclass(")
         \/ Contains(s, "enumerate(")
         \/ Contains(s, "zip(")
         \/ Contains(s, "sorted(") \/ Contains(s, ".sort(")
         \/ StartsWith(s, "return")
         \/ (\E x \in {".append(", ".get(", ".setdefault(", ".update("} : Contains(s, x))
         \/ CallsOneOf(s, {"int", "float", "str", "bool"})

RemoveSpaces(s) ==
    LET F[i \in 0..Len(s)] ==
            IF i = 0 THEN ""
            ELSE IF Char(s, i) = " " THEN F[i - 1] ELSE F[i - 1] \o Char(s, i)
    IN  F[Len(s)]

\* _py_comment_for_line: the comment, <<>> for None, and the exception that
\* leaves it, "" when it returns
_py_comment_for_line(s) ==
    LET Says(c) == [comment |-> c, raised |-> ""]
        SplitNote(n) ==
            Says(<<"# split(..., " \o ToString(n) \o "): split into at most " \o ToString(n + 1)
                    \o " parts (keeps the remaining text together).">>)
        SplitCount(digits) ==
            IF IntRaised(digits) # "" THEN [comment |-> <<>>, raised |-> IntRaised(digits)]
            ELSE SplitNote(IntOf(digits))
        Comment(st) ==
        IF StartsWith(st, "@dataclass")
        THEN IF Contains(RemoveSpaces(st), "frozen=True")
             THEN Says(<<"# dataclass(frozen=True): makes objects immutable (fields cannot be changed).">>)
             ELSE Says(<<"# dataclass: auto-creates __init__ and other helper methods for a data class.">>)
        ELSE IF StartsWith(st, "if __name__")
        THEN Says(<<"# This part runs only when the file is executed directly.">>)
        ELSE IF StartsWith(st, "for ")
        THEN Says(<<"# Loop: repeat the indented block for each item.">>)
        ELSE IF StartsWith(st, "while ")
        THEN Says(<<"# Loop: keep repeating while the condition stays true.">>)
        ELSE IF st = "try:"
        THEN Says(<<"# Try: run code that might fail; handle errors in ^except^.">>)
        ELSE IF StartsWith(st, "except")
        THEN Says(<<"# Except: handle a specific error so the program doesn't crash.">>)
        ELSE IF StartsWith(st, "with ") /\ Contains(st, "open(")
        THEN Says(<<"# Open a file safely. It auto-closes when this block ends.">>)
        ELSE IF Contains(st, ".split(") /\ SplitCountMatches(st) # {}
        THEN SplitCount(SplitCountDigits(st))
        ELSE IF Contains(st, "datetime.strptime")
        THEN Says(<<"# Convert a timestamp string into a real datetime value.">>)
        ELSE IF Contains(st, "[") /\ Contains(st, "]") /\ Contains(st, " for ")
        THEN Says(<<"# List comprehension: build a list by looping in one line.">>)
        ELSE IF Contains(st, "join(") /\ Contains(st, " for ")
        THEN Says(<<"# Build one string by joining many pieces.">>)
        ELSE IF Contains(st, "lambda ")
        THEN Says(<<"# lambda: a tiny one-line function (often used for sorting).">>)
        ELSE IF Contains(st, "enumerate(")
        THEN Says(<<"# enumerate(...): loop while also getting the index number.">>)
        ELSE IF Contains(st, "zip(")
        THEN Says(<<"# zip(...): pair items from multiple lists together.">>)
        ELSE IF Contains(st, "sorted(")
        THEN Says(<<"# sorted(...): create a new sorted list.">>)
        ELSE IF Contains(st, ".sort(")
        THEN IF Contains(st, "key=")
             THEN Says(<<"# sort(key=...): reorder items using a rule (the key chooses what to sort by).">>)
             ELSE Says(<<"# sort(): reorder the list in place.">>)
        ELSE IF Contains(st, ".append(")
        THEN Says(<<"# append(): add an item to the end of the list.">>)
        ELSE IF Contains(st, ".get(")
        THEN Says(<<"# dict.get(...): read a value safely (uses a default if missing).">>)
        ELSE IF Contains(st, ".setdefault(")
        THEN Says(<<"# setdefault(...): get a value, or create it if it doesn't exist.">>)
        ELSE IF CallsOneOf(st, {"int"})
        THEN Says(<<"# int(...): convert to a whole number.">>)
        ELSE IF CallsOneOf(st, {"float"})
        THEN Says(<<"# float(...): convert to a decimal number.">>)
        ELSE IF CallsOneOf(st, {"str"})
        THEN Says(<<"# str(...): convert to text.">>)
        ELSE IF StartsWith(st, "return ")
        THEN Says(<<"# Return: send the result back to whoever called this function.">>)
        ELSE Says(<<>>)
    IN  Comment(StripStr(s))

\* the test of an import line with a fault: the line is not stripped
IsImportLine_unstripped(line) == StartsWithAny(line, {"import ", "from "})

\* lines[i].strip().startswith(("import ", "from "))
IsImportLine(line) == StartsWithAny(StripStr(line), {"import ", "from "})

\* the first index from i on whose line is no import line
ImportRunEnd(lines, i) ==
    LET I == {j \in i..Len(lines) : ~IsImportLine(lines[j])}
    IN  IF I = {} THEN Len(lines) + 1 ELSE Min(I)

\* the import-grouping loop of _python_add_comments from index i on
RECURSIVE ImportPass(_, _)
ImportPass(lines, i) ==
    IF i > Len(lines) THEN <<>>
    ELSE IF IsImportLine(lines[i])
    THEN LET e == ImportRunEnd(lines, i)
         IN  <<"# Imports: bring in libraries this file depends on.">>
                \o SubSeq(lines, i, e - 1) \o <<"">> \o ImportPass(lines, e)
    ELSE <<lines[i]>> \o ImportPass(lines, i + 1)

\* what the comment loop of _python_add_comments appends for line idx of
\* rebuilt, and the exception that leaves the loop there
PyCommentedLine(rebuilt, idx, maps) ==
    LET Appends(ls)      == [lines |-> ls, raised |-> ""]
        Targeted(line, c) == [lines |-> WithComment(line, c.comment), raised |-> c.raised]
        Emit(line, s) ==
            IF idx \in DOMAIN maps.def_map /\ StartsWithAny(s, {"def ", "class "})
            THEN Appends(<<Indent(line) \o maps.def_map[idx], line>>)
            ELSE IF idx \in DOMAIN maps.return_reason_map /\ StartsWith(s, "return")
            THEN Appends(<<Indent(line) \o maps.return_reason_map[idx], line>>)
            ELSE IF _py_should_comment_line(s)
            THEN Targeted(line, _py_comment_for_line(s))
            ELSE Appends(<<line>>)
    IN  Emit(rebuilt[idx], StripStr(rebuilt[idx]))

RECURSIVE PyCommentPass(_, _, _)
\* the comment loop of _python_add_comments from line idx: final, up to the
\* line that raises
PyCommentPass(rebuilt, idx, maps) ==
    LET Then(here, rest) == [lines |-> here.lines \o rest.lines, raised |-> rest.raised]
        Step(here) ==
            IF here.raised # "" THEN here
            ELSE Then(here, PyCommentPass(rebuilt, idx + 1, maps))
    IN  IF idx > Len(rebuilt) THEN [lines |-> <<>>, raised |-> ""]
        ELSE Step(PyCommentedLine(rebuilt, idx, maps))

\* _python_add_comments: the returned text, or the exception that leaves it
_python_add_comments(code0, file_path) ==
    LET Out(lines)      == SplitNewline("# File: " \o BaseOr(file_path, "pasted_code")) \o <<"">>
                                \o ImportPass(lines, 1)
        Commented(code) ==
            PyCommentPass(Splitlines(Join(Out(Splitlines(code)))), 1,
                          _python_build_comment_maps(code))
        Returned(final) ==
            IF final.raised # "" THEN [text |-> <<"">>, raised |-> final.raised]
            ELSE [text |-> AppendNewline(RStripText(Join(final.lines))), raised |-> ""]
    IN  Returned(Commented(_clean_existing_auto_headers(code0)))

_python_docs(code, file_path) ==
    LET has_input == \E i \in 1..Len(code) : ContainsLowered(code[i], "input(")
        what      == IF has_input
                     THEN <<"Runs in the terminal and asks the user for input.">>
                     ELSE <<"Defines functions/classes and runs logic when executed.">>
        how       == << "1. Open a terminal in the folder containing the file.",
                        "2. Run: ^python " \o BaseOr(file_path, "main.py") \o "^",
                        "3. Follow any prompts (if the script asks for input)." >>
        logic     == << "Python reads the file from top to bottom.",
                        "Imports load first, then functions/classes are defined.",
                        "The ^if __name__ == '__main__'^ block runs only when executed directly.",
                        "Many scripts validate inputs early and return/exit when data is invalid." >>
        examples  == << "Input: user input (if used) or function arguments.",
                        "Output: printed text or returned values depending on the code." >>
        Note(p)   == IF ~p.ok THEN <<"Syntax/indentation error: " \o p.err>> ELSE <<>>
        edge      == Note(_safe_parse_python(code))
                     \o << "If the code reads files, the file must exist (unless handled).",
                           "Bad formats (dates/numbers) can cause errors unless handled with try/except." >>
    IN  _doc_sectioned_no_code(_filename_title(file_path, "python"), what,
                               <<"Python 3 installed">>, how, logic, examples, edge)

\* generate_python_docs: the returned dict, or the exception that leaves it
generate_python_docs(code, file_path) ==
    LET Result(code_clean, commented) ==
            IF commented.raised # ""
            THEN [commented_code |-> <<"">>, documentation |-> <<"">>,
                  raised |-> commented.raised]
            ELSE [commented_code |-> commented.text,
                  documentation  |-> _python_docs(code_clean, file_path),
                  raised         |-> ""]
        Clean(code_clean) == Result(code_clean, _python_add_comments(code_clean, file_path))
    IN  Clean(CrlfToLf(code))

-----------------------------------------------------------------------------
(* generators.py: JavaScript.                                              *)

WordChars == UpperSet \cup LowerSet \cup {"_", "0", "1", "2", "3", "4", "5", "6", "7", "8", "9"}

\* the index after the run of characters of the set chars that starts at i
RECURSIVE SkipIn(_, _, _)
SkipIn(s, i, chars) ==
    IF i > Len(s) \/ Char(s, i) \notin chars THEN i ELSE SkipIn(s, i + 1, chars)

\* the index after word followed by white space (\s+) at i, 0 if they are not there
AfterWordSpaces(s, i, word) ==
    IF MatchAt(s, i, word) /\ SkipSpaces(s, i + Len(word)) > i + Len(word)
    THEN SkipSpaces(s, i + Len(word))
    ELSE 0

\* the index after an identifier [A-Za-z_]\w* at i, 0 if there is none
AfterName(s, i) ==
    IF i <= Len(s) /\ Char(s, i) \in UpperSet \cup LowerSet \cup {"_"} THEN SkipIn(s, i, WordChars) ELSE 0

\* the first index from i on that holds character c, 0 if none
RECURSIVE IndexFrom(_, _, _)
IndexFrom(s, c, i) ==
    IF i > Len(s) THEN 0 ELSE IF Char(s, i) = c THEN i ELSE IndexFrom(s, c, i + 1)

\* the first of the matches ms that is one, <<>> when none is: the alternative
\* a backtracking matcher ends with
FirstMatch(ms) ==
    LET hits == {i \in 1..Len(ms) : ms[i] # <<>>}
    IN  IF hits = {} THEN <<>> ELSE ms[Min(hits)]

\* function\s+([A-Za-z_]\w*)\s*\((.*?)\) at q, each step given the places found so far:
\* f the name, n its end, o the "(", c the first ")" after it; 0 is "not there"
JsFuncAt(s, q) ==
    LET Close(f, n, o, c) ==
            IF n > 0 /\ Char(s, o) = "(" /\ c > 0
            THEN <<[name |-> SubSeq(s, f, n - 1), args |-> SubSeq(s, o + 1, c - 1)]>>
            ELSE <<>>
        Open(f, n, o) == Close(f, n, o, IndexFrom(s, ")", o + 1))
        Named(f, n)   == Open(f, n, SkipSpaces(s, n))
        Func(f)       == Named(f, AfterName(s, f))
    IN  Func(AfterWordSpaces(s, q, "function"))

\* _JS_FUNC_RE.match(s): <<[name, args]>>, or <<>> when there is no match
\*   ^\s*(?:export\s+)?(?:async\s+)?function\s+([A-Za-z_]\w*)\s*\((.*?)\)
JsFuncMatch(s) ==
    LET From(p0, e) ==
            FirstMatch(<< JsFuncAt(s, AfterWordSpaces(s, e, "async")),
                          JsFuncAt(s, e),
                          JsFuncAt(s, AfterWordSpaces(s, p0, "async")),
                          JsFuncAt(s, p0) >>)
    IN  From(SkipSpaces(s, 1), AfterWordSpaces(s, SkipSpaces(s, 1), "export"))

ArrowCloses(s, o) ==
    {c \in (o + 1)..Len(s) : Char(s, c) = ")" /\ MatchAt(s, SkipSpaces(s, c + 1), "=>")}

\* the index after one of the words followed by white space at i, 0 if none is there
AfterAnyWordSpaces(s, i, words) ==
    Max({AfterWordSpaces(s, i, w) : w \in words} \cup {0})

\* _JS_ARROW_RE.match(s): <<[name, args]>>, or <<>> when there is no match
\*   ^\s*(?:const|let|var)\s+([A-Za-z_]\w*)\s*=\s*(?:async\s*)?\((.*?)\)\s*=>
\* each step given the places found so far: f the name, n its end, q the "=",
\* v the value, o the "("
JsArrowMatch(s) ==
    LET Close(f, n, o, closes) ==
            IF Char(s, o) = "(" /\ closes # {}
            THEN <<[name |-> SubSeq(s, f, n - 1), args |-> SubSeq(s, o + 1, Min(closes) - 1)]>>
            ELSE <<>>
        Open(f, n, o)  == Close(f, n, o, ArrowCloses(s, o))
        Value(f, n, v) ==
            FirstMatch(<< IF MatchAt(s, v, "async") THEN Open(f, n, SkipSpaces(s, v + 5))
                          ELSE <<>>,
                          Open(f, n, v) >>)
        Eq(f, n, q)    ==
            IF n > 0 /\ Char(s, q) = "=" THEN Value(f, n, SkipSpaces(s, q + 1)) ELSE <<>>
        Named(f, n)    == Eq(f, n, SkipSpaces(s, n))
        Keyword(f)     == Named(f, AfterName(s, f))
    IN  Keyword(AfterAnyWordSpaces(s, SkipSpaces(s, 1), {"const", "let", "var"}))

JsEventSearch(s) ==
    \E i \in 1..Len(s) :
        MatchAt(s, i, ".addEventListener") /\ Char(s, SkipSpaces(s, i + 17)) = "("

ContainsAny(s, ps) == \E p \in ps : Contains(s, p)

_js_should_comment(s) ==
    IF s = "" \/ StartsWithAny(s, {"//", "/*", "*"}) THEN FALSE
    ELSE \/ StartsWithAny(s, {"import ", "export ", "function ", "async function ", "class ",
                              "if (", "for (", "while (", "try", "catch", "return ",
                              "const ", "let ", "var "})
         \/ ContainsAny(s, {"await ", "fetch("})
         \/ ContainsAny(s, {"document.", "querySelector", "getElementById", "createElement"})
         \/ JsEventSearch(s)
         \/ ContainsAny(s, {"map(", "filter(", "reduce(", "sort("})
         \/ ContainsAny(s, {"JSON.parse", "JSON.stringify"})
         \/ ContainsAny(s, {"console.log", "alert(", "prompt("})

\* the comment of _js_comment_for_line, <<>> for None
_js_comment_for_line(s) ==
    LET Comment(st, m, m2) ==
        IF StartsWith(st, "import ") THEN <<"// Import code from another module.">>
        ELSE IF StartsWith(st, "export ") THEN <<"// Export this so other files can use it.">>
        ELSE IF m # <<>>
        THEN IF StartsWith(st, "async")
             THEN <<"// Define async function " \o m[1].name \o "(" \o m[1].args
                    \o ") -- can wait for promises using await.">>
             ELSE <<"// Define function " \o m[1].name \o "(" \o m[1].args
                    \o ") -- reusable block of steps.">>
        ELSE IF m2 # <<>>
        THEN IF Contains(st, "async")
             THEN <<"// " \o m2[1].name \o "(" \o m2[1].args \o ") -- async arrow function.">>
             ELSE <<"// " \o m2[1].name \o "(" \o m2[1].args
                    \o ") -- arrow function (short function syntax).">>
        ELSE IF StartsWithAny(st, {"const ", "let ", "var "})
        THEN IF ContainsAny(st, {"document.getElementById", "querySelector"})
             THEN <<"// Get an element from the page so we can read or update it.">>
             ELSE IF Contains(st, "createElement")
             THEN <<"// Create a new HTML element in JavaScript.">>
             ELSE IF Contains(st, "fetch(") THEN <<"// Start an API request (fetch).">>
             ELSE <<"// Create a variable to store a value.">>
        ELSE IF StartsWith(st, "if (")
        THEN <<"// Only run the next block when the condition is true.">>
        ELSE IF StartsWith(st, "for (")
        THEN <<"// Loop: repeat the next block multiple times.">>
        ELSE IF StartsWith(st, "while (")
        THEN <<"// Loop: keep repeating while the condition stays true.">>
        ELSE IF StartsWith(st, "try")
        THEN <<"// Try running code that might fail; errors go to catch.">>
        ELSE IF StartsWith(st, "catch")
        THEN <<"// Handle an error so the app does not crash.">>
        ELSE IF StartsWith(st, "return") THEN <<"// Return a result back to the caller.">>
        ELSE IF Contains(st, "await ")
        THEN <<"// Wait for an async operation to finish before continuing.">>
        ELSE IF Contains(st, "fetch(") THEN <<"// Send an HTTP request to an API.">>
        ELSE IF JsEventSearch(st)
        THEN <<"// Run this code when the user triggers an event (e.g., submit, click).">>
        ELSE IF Contains(st, "map(")
        THEN <<"// Transform each item into a new value (map).">>
        ELSE IF Contains(st, "filter(")
        THEN <<"// Keep only items that match a condition (filter).">>
        ELSE IF Contains(st, "reduce(")
        THEN <<"// Combine many items into one result (reduce).">>
        ELSE IF Contains(st, "sort(") THEN <<"// Sort the list into a new order.">>
        ELSE IF Contains(st, "console.log")
        THEN <<"// Print a message to the console (for debugging).">>
        ELSE IF Contains(st, "alert(") THEN <<"// Show a popup message in the browser.">>
        ELSE IF Contains(st, "prompt(")
        THEN <<"// Ask the user for input in a popup prompt.">>
        ELSE <<>>
    IN  Comment(StripStr(s), JsFuncMatch(StripStr(s)), JsArrowMatch(StripStr(s)))

RECURSIVE Flatten(_, _, _)
Flatten(f, lo, hi) ==
    IF lo > hi THEN <<>> ELSE f[lo] \o Flatten(f, lo + 1, hi)

JsCommentedLine(line) ==
    WithComment(line, IF _js_should_comment(StripStr(line))
                      THEN _js_comment_for_line(StripStr(line)) ELSE <<>>)

_comment_js(code0, file_path) ==
    LET lines == Splitlines(_clean_existing_auto_headers(code0))
        out   == SplitNewline("// File: " \o BaseOr(file_path, "pasted_code")) \o <<"">>
                    \o Flatten([i \in 1..Len(lines) |-> JsCommentedLine(lines[i])], 1, Len(lines))
    IN  AppendNewline(RStripText(Join(out)))

_js_docs(file_path) ==
    _doc_sectioned_no_code(
        _filename_title(file_path, "javascript"),
        <<"Adds logic to a web page (or runs as a Node.js script).">>,
        <<"Browser (web) or Node.js (backend).">>,
        << "Web:",
           "1. Link the file in HTML: ^<script src='file.js'></script>^",
           "2. Open the HTML in a browser and check DevTools Console.",
           "",
           "Node:",
           "1. Run: ^node file.js^" >>,
        << "Variables store values.",
           "Functions group reusable steps.",
           "Events run code when the user interacts (click/submit).",
           "Async code can call APIs using fetch + await." >>,
        << "Input: user clicks, submits form, or types data.",
           "Output: DOM updates, console logs, alerts, returned values." >>,
        << "If the script file path is wrong in HTML, it will not run.",
           "API requests can fail if the server is down or URL is wrong." >>)

-----------------------------------------------------------------------------
(* generators.py: HTML.                                                    *)

_HTML_TAG_HINTS ==
    [ form    |-> "Form: collects user input and submits it.",
      input   |-> "Input: where the user types a value.",
      button  |-> "Button: user clicks to trigger an action.",
      script  |-> "Script: loads/runs JavaScript.",
      link    |-> "Link: connects external files (like CSS).",
      meta    |-> "Meta: page configuration (charset, viewport).",
      label   |-> "Label: describes what an input field is for.",
      table   |-> "Table: displays rows and columns of data.",
      thead   |-> "Table head: column titles.",
      tbody   |-> "Table body: table rows go here.",
      section |-> "Section: groups related content.",
      header  |-> "Header: top area of the page.",
      main    |-> "Main: primary content of the page.",
      footer  |-> "Footer: bottom area of the page." ]

\* re.search(r"\bword\s*=", s.lower()) for a lower-case word
AttrSearch(s, word) ==
    \E i \in 1..Len(s) :
        /\ LowerChar(Char(s, i)) = Char(word, 1)
        /\ i + Len(word) - 1 <= Len(s)
        /\ Lower(SubSeq(s, i, i + Len(word) - 1)) = word
        /\ WordBoundary(s, i)
        /\ Char(s, SkipSpaces(s, i + Len(word))) = "="

_html_attribute_notes(line) ==
    LET note(cond, text) == IF cond THEN <<text>> ELSE <<>>
        Notes(s) ==
            note(ContainsLowered(s, "required"),
                 "required: user must fill this before submitting.")
            \o note(ContainsLowered(s, "minlength"),
                    "minlength: minimum number of characters allowed.")
            \o note(ContainsLowered(s, "type=\"number\"") \/ ContainsLowered(s, "type='number'"),
                    "type=number: input expects numeric values.")
            \o note(ContainsLowered(s, "step="),
                    "step: allowed increments (e.g., 0.01 for money).")
            \o note(AttrSearch(s, "min"), "min: smallest allowed value.")
            \o note(ContainsLowered(s, "aria-"),
                    "aria-*: helps screen readers understand the page (accessibility).")
            \o note(ContainsLowered(s, "aria-labelledby"),
                    "aria-labelledby: connects this section to a heading for accessibility.")
            \o note(AttrSearch(s, "for") /\ AttrSearch(s, "id"),
                    "for/id: links <label> to <input> (clicking label focuses input).")
            \o note(AttrSearch(s, "name"),
                    "name: key used when reading form values in JavaScript.")
            \o note(AttrSearch(s, "id"),
                    "id: unique identifier (used for selecting the element in JS/CSS).")
    IN  Notes(StripStr(line))

\* tag_re.match(line).group(1).lower(), "" when there is no match
\*   ^\s*<\s*([a-zA-Z0-9]+)\b
HtmlTag(line) ==
    LET Named(lt, b, e) ==
            IF Char(line, lt) = "<" /\ e > b /\ Char(line, e) # "_"
            THEN Lower(SubSeq(line, b, e - 1))
            ELSE ""
        Begun(lt, b) == Named(lt, b, SkipIn(line, b, WordChars \ {"_"}))
        Opened(lt)   == Begun(lt, SkipSpaces(line, lt + 1))
    IN  Opened(SkipSpaces(line, 1))

\* what the loop of _comment_html appends for a line
HtmlCommentedLine(line) ==
    LET Emit(tag, notes) ==
            (IF tag \in DOMAIN _HTML_TAG_HINTS
             THEN <<Indent(line) \o "<!-- " \o _HTML_TAG_HINTS[tag] \o " -->">> ELSE <<>>)
            \o [i \in 1..Len(notes) |-> Indent(line) \o "<!-- " \o notes[i] \o " -->"]
            \o <<line>>
    IN  Emit(HtmlTag(line), _html_attribute_notes(line))

_comment_html(code0, file_path) ==
    LET Out(lines) ==
            SplitNewline("<!-- File: " \o BaseOr(file_path, "pasted_code") \o " -->") \o <<"">>
            \o Flatten([i \in 1..Len(lines) |-> HtmlCommentedLine(lines[i])], 1, Len(lines))
    IN  AppendNewline(RStripText(Join(Out(Splitlines(_clean_existing_auto_headers(code0))))))

_html_docs(file_path) ==
    _doc_sectioned_no_code(
        _filename_title(file_path, "html"),
        <<"Defines the structure and content of a web page.">>,
        <<"A web browser.">>,
        <<"1. Save as ^.html^", "2. Open in a browser.">>,
        << "The browser reads HTML and builds the page structure (DOM).",
           "CSS (if linked) controls appearance; JS (if linked) controls behavior.",
           "ARIA attributes improve accessibility for screen readers." >>,
        <<"Input: user clicks/types.", "Output: page shows content or runs JS.">>,
        <<"Broken ^<link>^ / ^<script src>^ paths stop CSS/JS from loading.">>)

-----------------------------------------------------------------------------
(* generators.py: CSS.                                                     *)

\* what the loop of _comment_css appends for a line
CssCommentedLine(line) ==
    LET note(cond, text) == IF cond THEN <<text>> ELSE <<>>
        Notes(s) ==
            note(StartsWith(s, ":root"),
                 "/* :root holds global CSS variables (reusable values). */")
            \o note(StartsWith(s, "@media"),
                    "/* Responsive design: rules apply only on certain screen sizes. */")
            \o note(Contains(s, "display: flex"),
                    "/* Flex layout: helps align items in a row/column. */")
            \o note(Contains(s, "display: grid"),
                    "/* Grid layout: helps build rows/columns layout. */")
            \o note(StartsWith(s, "padding:"), "/* Padding = space inside the element. */")
            \o note(StartsWith(s, "margin:"), "/* Margin = space outside the element. */")
            \o note(StartsWith(s, "gap:"),
                    "/* Gap = space between items in flex/grid layouts. */")
    IN  Notes(StripStr(line)) \o <<line>>

_comment_css(code0, file_path) ==
    LET Out(lines) ==
            SplitNewline("/* File: " \o BaseOr(file_path, "pasted_code") \o " */") \o <<"">>
            \o Flatten([i \in 1..Len(lines) |-> CssCommentedLine(lines[i])], 1, Len(lines))
    IN  AppendNewline(RStripText(Join(Out(Splitlines(_clean_existing_auto_headers(code0))))))

_css_docs(file_path) ==
    _doc_sectioned_no_code(
        _filename_title(file_path, "css"),
        <<"Controls how a web page looks (layout, spacing, fonts, colors).">>,
        <<"A browser + an HTML file that links this CSS.">>,
        << "1. Link it in HTML: ^<link rel='stylesheet' href='styles.css'>^",
           "2. Refresh the browser after edits." >>,
        << "Selectors choose which elements to style.",
           "Properties define how those elements should look.",
           "@media blocks apply different styles for different screen sizes." >>,
        <<"Input: none directly.", "Output: page appearance changes.">>,
        <<"If the CSS file path is wrong, styles will not load.">>)

-----------------------------------------------------------------------------
(* generators.py: Java.                                                    *)


\* _JAVA_CLASS_RE.match(s).group(2), <<>> when there is no match
\*   ^\s*(public\s+)?class\s+([A-Za-z_]\w*)
JavaClassMatch(s) ==
    LET Named(f, n)  == IF n > 0 THEN <<SubSeq(s, f, n - 1)>> ELSE <<>>
        Class(f)     == Named(f, IF f > 0 THEN AfterName(s, f) ELSE 0)
        From(p0, pb) == Class(AfterWordSpaces(s, IF pb > 0 THEN pb ELSE p0, "class"))
        Start(p0)    == From(p0, AfterWordSpaces(s, p0, "public"))
    IN  Start(SkipSpaces(s, 1))

\* the index after (public|private|protected)\s+ at the start of s, 0 if not there
AfterModifier(s) ==
    LET Longest(ms) == IF ms = {} THEN 0 ELSE Max(ms)
        Start(p0)   == Longest({AfterWordSpaces(s, p0, w) : w \in {"public", "private", "protected"}} \ {0})
    IN  Start(SkipSpaces(s, 1))

\* ([A-Za-z0-9_<>\[\]]+)\s+([A-Za-z_]\w*)\s*\(  at t: <<[ret_type, name]>> or <<>>
JavaTypeNameAt(s, t) ==
    LET Named(te, nb, ne) ==
            IF ne > 0 /\ Char(s, SkipSpaces(s, ne)) = "("
            THEN <<[ret_type |-> SubSeq(s, t, te - 1), name |-> SubSeq(s, nb, ne - 1)]>>
            ELSE <<>>
        Spaced(te, nb) == Named(te, nb, IF te > t /\ nb > te THEN AfterName(s, nb) ELSE 0)
        Typed(te)      == Spaced(te, SkipSpaces(s, te))
    IN  Typed(SkipIn(s, t, WordChars \cup {"<", ">", "[", "]"}))

\* _JAVA_METHOD_RE.match(s): <<[ret_type, name]>>, or <<>> when there is no match
\*   ^\s*(public|private|protected)\s+(static\s+)?([A-Za-z0-9_<>\[\]]+)\s+([A-Za-z_]\w*)\s*\(
JavaMethodMatch(s) ==
    LET Either(m, with_static) ==
            IF m = 0 THEN <<>>
            ELSE IF with_static # <<>> THEN with_static
            ELSE JavaTypeNameAt(s, m)
        Static(m, st) == Either(m, IF st > 0 THEN JavaTypeNameAt(s, st) ELSE <<>>)
        Modified(m)   == Static(m, IF m > 0 THEN AfterWordSpaces(s, m, "static") ELSE 0)
    IN  Modified(AfterModifier(s))

\* _JAVA_CTOR_RE.match(s).group(2), <<>> when there is no match
\*   ^\s*(public|private|protected)\s+([A-Za-z_]\w*)\s*\(
JavaCtorMatch(s) ==
    LET Named(m, n) ==
            IF n > 0 /\ Char(s, SkipSpaces(s, n)) = "(" THEN <<SubSeq(s, m, n - 1)>> ELSE <<>>
        Modified(m) == Named(m, IF m > 0 THEN AfterName(s, m) ELSE 0)
    IN  Modified(AfterModifier(s))

\* \s*return\s+(true|false|null)\s*; matches at i
ReturnLiteralAt(s, i) ==
    LET Literal(r) ==
            r > 0 /\ \E w \in {"true", "false", "null"} :
                        MatchAt(s, r, w) /\ Char(s, SkipSpaces(s, r + Len(w))) = ";"
    IN  Literal(AfterWordSpaces(s, SkipSpaces(s, i), "return"))

\* _JAVA_IF_RETURN_RE.match(s).group(1), <<>> when there is no match
\*   ^\s*if\s*\((.+)\)\s*return\s+(true|false|null)\s*;
JavaIfReturnMatch(s) ==
    LET Cond(o, closes) ==
            IF closes = {} THEN <<>> ELSE <<SubSeq(s, o + 1, Max(closes) - 1)>>
        Open(o) ==
            Cond(o, IF o > 0 /\ Char(s, o) = "("
                    THEN {c \in (o + 2)..Len(s) : Char(s, c) = ")" /\ ReturnLiteralAt(s, c + 1)}
                    ELSE {})
        If(p0) == Open(IF MatchAt(s, p0, "if") THEN SkipSpaces(s, p0 + 2) ELSE 0)
    IN  If(SkipSpaces(s, 1))

_java_should_comment(s) ==
    IF s = "" \/ StartsWith(s, "//") THEN FALSE
    ELSE \/ StartsWith(s, "import ")
         \/ JavaClassMatch(s) # <<>>
         \/ Contains(s, "public static void main")
         \/ JavaMethodMatch(s) # <<>>
         \/ JavaCtorMatch(s) # <<>>
         \/ /\ StartsWithAny(s, {"private ", "public ", "protected "})
            /\ EndsWith(s, ";")
            /\ ~Contains(s, "(")
         \/ Contains(s, "this.")
         \/ StartsWithAny(s, {"if", "for", "while", "try", "catch", "return "})

\* c.split(p)[0] for a p that occurs in c
Before(c, p) ==
    SubSeq(c, 1, Min({i \in 1..Len(c) : MatchAt(c, i, p)}) - 1)

_java_simple_condition_reason(cond) ==
    LET Reason(c) ==
            IF Contains(c, "<= 0")
            THEN "because " \o StripStr(Before(c, "<= 0")) \o " is not positive"
            ELSE IF Contains(c, "== null")
            THEN "because " \o StripStr(Before(c, "== null")) \o " is missing (null)"
            ELSE IF Contains(c, "!= null")
            THEN "because " \o StripStr(Before(c, "!= null")) \o " exists (not null)"
            ELSE IF Contains(c, "< 0")
            THEN "because " \o StripStr(Before(c, "< 0")) \o " is negative"
            ELSE IF Contains(c, "> balance")
            THEN "because the requested amount is more than the available balance"
            ELSE "because the condition (" \o c \o ") is true"
    IN  Reason(StripStr(cond))

\* the comment of _java_comment_for_line, <<>> for None
_java_comment_for_line(s) ==
    LET Comment(st, m, mctor, mm, m_if_ret) ==
        IF StartsWith(st, "import ")
        THEN <<"// Import: bring in classes from Java libraries.">>
        ELSE IF m # <<>>
        THEN <<"// Class ^" \o m[1] \o "^: groups data (fields) and actions (methods).">>
        ELSE IF Contains(st, "public static void main")
        THEN <<"// main(): Java starts running here.">>
        ELSE IF /\ StartsWithAny(st, {"private ", "public ", "protected "})
                /\ EndsWith(st, ";")
                /\ ~Contains(st, "(")
        THEN <<"// Field: stores information inside each object.">>
        ELSE IF /\ mctor # <<>>
                /\ ~Contains(st, "class")
                /\ ~Contains(st, "void")
                /\ Contains(st, "(")
        THEN <<"// Constructor ^" \o mctor[1] \o "(...)^: runs when creating a new object.">>
        ELSE IF mm # <<>> /\ ~Contains(st, "main")
        THEN IF mm[1].ret_type = "void"
             THEN <<"// Method ^" \o mm[1].name
                    \o "(...)^: performs an action (no returned value).">>
             ELSE <<"// Method ^" \o mm[1].name \o "(...)^: returns a ^"
                    \o mm[1].ret_type \o "^ result.">>
        ELSE IF m_if_ret # <<>>
        THEN <<"// Stop here " \o _java_simple_condition_reason(m_if_ret[1]) \o ".">>
        ELSE IF Contains(st, "this.")
        THEN <<"// this.field = ... means: set a value on the current object.">>
        ELSE IF StartsWith(st, "if")
        THEN <<"// If-statement: run the next block only when the condition is true.">>
        ELSE IF StartsWith(st, "for") THEN <<"// Loop: repeat the next block multiple times.">>
        ELSE IF StartsWith(st, "while")
        THEN <<"// Loop: keep repeating while the condition stays true.">>
        ELSE IF StartsWith(st, "try") THEN <<"// Try: run code that might throw an exception.">>
        ELSE IF StartsWith(st, "catch")
        THEN <<"// Catch: handle the error so the program does not crash.">>
        ELSE IF StartsWith(st, "return ")
        THEN <<"// Return: send a result back to the caller.">>
        ELSE <<>>
        Of(st) == Comment(st, JavaClassMatch(st), JavaCtorMatch(st), JavaMethodMatch(st),
                          JavaIfReturnMatch(st))
    IN  Of(StripStr(s))

\* what the loop of _comment_java appends for a line
JavaCommentedLine(line) ==
    LET Emit(s) == WithComment(line, IF _java_should_comment(s)
                                     THEN _java_comment_for_line(s) ELSE <<>>)
    IN  Emit(StripStr(line))

_comment_java(code0, file_path) ==
    LET Out(lines) ==
            SplitNewline("// File: " \o BaseOr(file_path, "pasted_code")) \o <<"">>
            \o Flatten([i \in 1..Len(lines) |-> JavaCommentedLine(lines[i])], 1, Len(lines))
    IN  AppendNewline(RStripText(Join(Out(Splitlines(_clean_existing_auto_headers(code0))))))

_java_docs(file_path) ==
    _doc_sectioned_no_code(
        _filename_title(file_path, "java"),
        <<"Defines Java classes and methods; may run from ^main()^.">>,
        <<"Java JDK installed.">>,
        << "1. Open terminal in the folder.",
           "2. Compile: ^javac FileName.java^",
           "3. Run: ^java FileName^ (without .java)" >>,
        << "Java code is organized into classes.",
           "^main()^ is the entry point for running a program.",
           "Constructors run when you create objects using ^new^.",
           "Validation checks often stop early when inputs are invalid." >>,
        << "Input: user input if coded, or method parameters.",
           "Output: console text or returned values." >>,
        <<"Public class name often must match the file name to compile.">>)

-----------------------------------------------------------------------------
(* generators.py: the public entry.                                        *)

generate_simple_docs(language0, code, file_path) ==
    LET language   == StripStr(Lower(language0))
        code_clean == CrlfToLf(code)
    IN  IF language = "python" THEN generate_python_docs(code_clean, file_path)
        ELSE IF language = "javascript"
        THEN [commented_code |-> _comment_js(code_clean, file_path),
              documentation  |-> _js_docs(file_path), raised |-> ""]
        ELSE IF language = "html"
        THEN [commented_code |-> _comment_html(code_clean, file_path),
              documentation  |-> _html_docs(file_path), raised |-> ""]
        ELSE IF language = "css"
        THEN [commented_code |-> _comment_css(code_clean, file_path),
              documentation  |-> _css_docs(file_path), raised |-> ""]
        ELSE IF language = "java"
        THEN [commented_code |-> _comment_java(code_clean, file_path),
              documentation  |-> _java_docs(file_path), raised |-> ""]
        ELSE [commented_code |-> AppendNewline(RStripText(code_clean)),
              documentation  |->
                _doc_sectioned_no_code(
                    _filename_title(file_path, IF language # "" THEN language ELSE "unknown"),
                    <<"Part of a software project.">>, <<"Depends on the project.">>,
                    <<"Depends on the project.">>, <<"Depends on the code.">>,
                    <<"Depends on the code.">>, <<"No extra notes.">>),
              raised |-> ""]


-----------------------------------------------------------------------------
(* local_model.py: the optional local model.  Its environment is whether    *)
(* torch and transformers can be imported (libs), whether MODEL_DIR holds   *)
(* the trained model (files) and whether the globals _tokenizer and _model  *)
(* are set (loaded).  What the model generates is an outcome [text, raised];*)
(* raised is str(e) of the exception, as main.py puts it in its note.       *)

\* load_model(): from_pretrained raises when MODEL_DIR holds no model
load_model(loaded, files) ==
    IF loaded \/ files THEN [loaded |-> TRUE, raised |-> ""]
    ELSE [loaded |-> FALSE, raised |-> "no model files in MODEL_DIR"]

\* generate_comment(code): the decoded text, stripped
generate_comment(loaded, files, outcome) ==
    LET l == load_model(loaded, files)
    IN  IF l.raised # "" THEN [text |-> "", raised |-> l.raised, loaded |-> l.loaded]
        ELSE IF outcome.raised # ""
        THEN [text |-> "", raised |-> outcome.raised, loaded |-> l.loaded]
        ELSE [text |-> StripStr(outcome.text), raised |-> "", loaded |-> l.loaded]

-----------------------------------------------------------------------------
(* main.py.                                                                *)

\* importing local_model succeeds when the libraries it imports are installed
_local_ai_is_available(libs) == libs

\* _generate_with_local_model with a fault: the call that loads the model
\* gives up, and only the calls that find it loaded return a summary
_generate_with_local_model_cold_fails(libs, loaded, files, outcome) ==
    IF ~libs
    THEN [text |-> "", loaded |-> loaded, invoked |-> FALSE,
          raised |-> "Local model not available: No module named 'torch'"]
    ELSE LET g == generate_comment(loaded, files, outcome)
         IN  [text |-> g.text, loaded |-> g.loaded, invoked |-> TRUE,
              raised |-> IF g.raised # "" THEN "Local model not available: " \o g.raised
                         ELSE IF ~loaded THEN "Local model not available: still loading"
                         ELSE ""]

\* invoked: generate_comment was called
_generate_with_local_model(libs, loaded, files, outcome) ==
    IF ~libs
    THEN [text |-> "", loaded |-> loaded, invoked |-> FALSE,
          raised |-> "Local model not available: No module named 'torch'"]
    ELSE LET g == generate_comment(loaded, files, outcome)
         IN  [text |-> g.text, loaded |-> g.loaded, invoked |-> TRUE,
              raised |-> IF g.raised # "" THEN "Local model not available: " \o g.raised
                         ELSE ""]

EXTENSIONS_BY_LANGUAGE ==
    [ python     |-> {".py"},
      javascript |-> {".js"},
      html       |-> {".html", ".htm"},
      css        |-> {".css"},
      java       |-> {".java"} ]

\* ALL_SUPPORTED_EXTS with a fault: the extension of Java sources is missing
ALL_SUPPORTED_EXTS_without_java ==
    UNION {EXTENSIONS_BY_LANGUAGE[l] : l \in DOMAIN EXTENSIONS_BY_LANGUAGE \ {"java"}}

ALL_SUPPORTED_EXTS == UNION {EXTENSIONS_BY_LANGUAGE[l] : l \in DOMAIN EXTENSIONS_BY_LANGUAGE}

\* the index of the last character c of s, 0 if none
LastIndexOf(s, c) == LastIndexBefore(s, c, Len(s))

\* os.path.splitext(p)[1]: from the last dot of the last path component, unless
\* only dots precede it there
SplitextExt(p) ==
    LET sep == LastIndexOf(p, "/")
        dot == LastIndexOf(p, ".")
    IN  IF dot > sep /\ \E k \in (sep + 1)..(dot - 1) : Char(p, k) # "."
        THEN SubSeq(p, dot, Len(p))
        ELSE ""

\* guess_language_from_filename(filename): <<>> for None
\* guess_language_from_filename with a fault: the case of the extension counts
guess_language_from_filename_cased(filename) ==
    LET ext   == SplitextExt(filename)
        langs == {l \in DOMAIN EXTENSIONS_BY_LANGUAGE : ext \in EXTENSIONS_BY_LANGUAGE[l]}
    IN  IF langs = {} THEN <<>> ELSE <<CHOOSE l \in langs : TRUE>>

guess_language_from_filename(filename) ==
    LET ext   == SplitextExt(Lower(filename))
        langs == {l \in DOMAIN EXTENSIONS_BY_LANGUAGE : ext \in EXTENSIONS_BY_LANGUAGE[l]}
    IN  IF langs = {} THEN <<>> ELSE <<CHOOSE l \in langs : TRUE>>

generate_rule_based(language, code, file_path) ==
    IF language = "python" THEN generate_python_docs(code, file_path)
    ELSE generate_simple_docs(language, code, file_path)

CodeKeywords == {"return", "var", "let", "const", "public", "private", "function"}

\* _looks_like_bad_ai_summary with a fault: the keyword test is missing
_looks_like_bad_ai_summary_no_keywords(text) ==
    LET Bad(t) ==
            \/ t = ""
            \/ Len(t) < 12
            \/ Contains(t, ";") \/ Contains(t, "{") \/ Contains(t, "}")
    IN  Bad(StripStr(text))

_looks_like_bad_ai_summary(text) ==
    LET t == StripStr(text)
    IN  \/ t = ""
        \/ Len(t) < 12
        \/ Contains(t, ";") \/ Contains(t, "{") \/ Contains(t, "}")
        \* re.match(r"^(return|var|let|const|public|private|function)\b", t, re.I)
        \/ \E w \in CodeKeywords :
              /\ Len(t) >= Len(w)
              /\ Lower(SubSeq(t, 1, Len(w))) = w
              /\ WordBoundary(t, Len(w) + 1)

NoNote == <<>>

\* generate_any with a fault: no except clause around the AI path
generate_any_without_except(language, code, file_path, use_ai, libs, loaded, files, outcome) ==
    LET Ret(base, doc, note, invoked, l) ==
            [commented_code |-> base.commented_code, documentation |-> doc, note |-> note,
             raised |-> "", invoked |-> invoked, loaded |-> l]
        Summarised(base, ai) ==
            IF ai.raised # ""
            THEN [commented_code |-> <<"">>, documentation |-> <<"">>, note |-> NoNote,
                  raised |-> ai.raised, invoked |-> ai.invoked, loaded |-> ai.loaded]
            ELSE IF _looks_like_bad_ai_summary(ai.text)
            THEN Ret(base, base.documentation,
                     <<"AI was requested, but the AI summary looked like raw code, so it was ignored.">>,
                     ai.invoked, ai.loaded)
            ELSE Ret(base, <<"## AI One-line Summary (optional)", "- " \o StripStr(ai.text), "">>
                                \o base.documentation,
                     NoNote, ai.invoked, ai.loaded)
        Requested(base) ==
            IF base.raised # ""
            THEN [commented_code |-> <<"">>, documentation |-> <<"">>, note |-> NoNote,
                  raised |-> base.raised, invoked |-> FALSE, loaded |-> loaded]
            ELSE IF ~use_ai THEN Ret(base, base.documentation, NoNote, FALSE, loaded)
            ELSE IF ~_local_ai_is_available(libs)
            THEN Ret(base, base.documentation,
                     <<"AI was requested, but AI is disabled on this server. Used rule-based output.">>,
                     FALSE, loaded)
            ELSE Summarised(base, _generate_with_local_model(libs, loaded, files, outcome))
    IN  Requested(generate_rule_based(language, code, file_path))

\* generate_any with a fault: an accepted summary replaces the documentation
generate_any_summary_replaces(language, code, file_path, use_ai, libs, loaded, files, outcome) ==
    LET Ret(base, doc, note, invoked, l) ==
            [commented_code |-> base.commented_code, documentation |-> doc, note |-> note,
             raised |-> "", invoked |-> invoked, loaded |-> l]
        Summarised(base, ai) ==
            IF ai.raised # ""
            THEN Ret(base, base.documentation,
                     <<"AI failed; used rule-based output instead. Error: " \o ai.raised>>,
                     ai.invoked, ai.loaded)
            ELSE IF _looks_like_bad_ai_summary(ai.text)
            THEN Ret(base, base.documentation,
                     <<"AI was requested, but the AI summary looked like raw code, so it was ignored.">>,
                     ai.invoked, ai.loaded)
            ELSE Ret(base, <<"## AI One-line Summary (optional)", "- " \o StripStr(ai.text), "">>,
                     NoNote, ai.invoked, ai.loaded)
        Requested(base) ==
            IF base.raised # ""
            THEN [commented_code |-> <<"">>, documentation |-> <<"">>, note |-> NoNote,
                  raised |-> base.raised, invoked |-> FALSE, loaded |-> loaded]
            ELSE IF ~use_ai THEN Ret(base, base.documentation, NoNote, FALSE, loaded)
            ELSE IF ~_local_ai_is_available(libs)
            THEN Ret(base, base.documentation,
                     <<"AI was requested, but AI is disabled on this server. Used rule-based output.">>,
                     FALSE, loaded)
            ELSE Summarised(base, _generate_with_local_model(libs, loaded, files, outcome))
    IN  Requested(generate_rule_based(language, code, file_path))

\* generate_any: the returned dict (note is <<>> when the key is absent), the
\* exception that leaves it, whether generate_comment was invoked and the
\* model globals afterwards
generate_any(language, code, file_path, use_ai, libs, loaded, files, outcome) ==
    LET Ret(base, doc, note, invoked, l) ==
            [commented_code |-> base.commented_code, documentation |-> doc, note |-> note,
             raised |-> "", invoked |-> invoked, loaded |-> l]
        Summarised(base, ai) ==
            IF ai.raised # ""
            THEN Ret(base, base.documentation,
                     <<"AI failed; used rule-based output instead. Error: " \o ai.raised>>,
                     ai.invoked, ai.loaded)
            ELSE IF _looks_like_bad_ai_summary(ai.text)
            THEN Ret(base, base.documentation,
                     <<"AI was requested, but the AI summary looked like raw code, so it was ignored.">>,
                     ai.invoked, ai.loaded)
            ELSE Ret(base, <<"## AI One-line Summary (optional)", "- " \o StripStr(ai.text), "">>
                                \o base.documentation,
                     NoNote, ai.invoked, ai.loaded)
        Requested(base) ==
            IF base.raised # ""
            THEN [commented_code |-> <<"">>, documentation |-> <<"">>, note |-> NoNote,
                  raised |-> base.raised, invoked |-> FALSE, loaded |-> loaded]
            ELSE IF ~use_ai THEN Ret(base, base.documentation, NoNote, FALSE, loaded)
            ELSE IF ~_local_ai_is_available(libs)
            THEN Ret(base, base.documentation,
                     <<"AI was requested, but AI is disabled on this server. Used rule-based output.">>,
                     FALSE, loaded)
            ELSE Summarised(base, _generate_with_local_model(libs, loaded, files, outcome))
    IN  Requested(generate_rule_based(language, code, file_path))

\* s.replace(old, new), for a non-empty old
RECURSIVE Replace(_, _, _)
Replace(s, old, new) ==
    IF Len(s) < Len(old) THEN s
    ELSE IF StartsWith(s, old)
    THEN new \o Replace(SubSeq(s, Len(old) + 1, Len(s)), old, new)
    ELSE SubSeq(s, 1, 1) \o Replace(SubSeq(s, 2, Len(s)), old, new)

_md_escape_backticks(s) == Replace(s, "^", "\\^")

\* _extract_first_value(doc_text, header): the first bullet below the first
\* line that is the header, "" when a "## " line or the end comes first
_extract_first_value(doc_text, header) ==
    LET Value(s) == IF StartsWith(s, "- ") THEN StripStr(SubSeq(s, 3, Len(s))) ELSE ""
        Found(lines, heads) ==
            LET Ends(stops) == IF stops = {} THEN "" ELSE Value(StripStr(lines[Min(stops)]))
            IN  IF heads = {} THEN ""
                ELSE Ends({k \in (Min(heads) + 1)..Len(lines) :
                            /\ k \notin heads
                            /\ StartsWithAny(StripStr(lines[k]), {"## ", "- "})})
        Scan(lines, h) ==
            Found(lines, {k \in 1..Len(lines) : Lower(StripStr(lines[k])) = h})
    IN  Scan(Splitlines(doc_text), Lower(StripStr(header)))

\* build_project_readme(results, skipped): the text, line by line
build_project_readme(rs, sk) ==
    LET Base(path) == BaseOr(path, "")
        FirstOf(langs) ==
            LET I == {i \in 1..Len(rs) : rs[i].language \in langs}
            IN  IF I = {} THEN <<>> ELSE <<rs[Min(I)].file>>
        Described(guess) ==
            IF guess # "" THEN guess ELSE "This project contains code files that work together."
        Reqs(langs) ==
            (IF "python" \in langs THEN <<"Python 3 installed">> ELSE <<>>)
            \o (IF "java" \in langs THEN <<"Java JDK installed">> ELSE <<>>)
            \o (IF langs \cap {"html", "css", "javascript"} # {}
                THEN <<"A web browser (Chrome/Edge/Firefox)",
                       "Optional: Live Server extension in VS Code">>
                ELSE <<>>)
        OrNone(reqs) == IF reqs = <<>> THEN <<"No special requirements detected">> ELSE reqs
        RunPython(f) ==
            <<"### Run as Python", "1. Open a terminal inside the project folder.",
              "2. Run: ^python " \o (IF f = <<>> THEN "main.py" ELSE Base(f[1])) \o "^",
              "3. Follow any prompts shown on the terminal.", "">>
        RunWeb(f) ==
            <<"### Run as Website",
              IF f # <<>> /\ f[1] # "" THEN "1. Open ^" \o f[1] \o "^ in a browser."
              ELSE "1. Open the main ^.html^ file in a browser.",
              "2. CSS and JavaScript will load automatically if linked.", "">>
        RunJava(java_file) ==
            <<"### Run as Java", "1. Compile: ^javac " \o java_file \o "^",
              "2. Run: ^java " \o Replace(java_file, ".java", "") \o "^", "">>
        HowToRun(langs) ==
            (IF "python" \in langs THEN RunPython(FirstOf({"python"})) ELSE <<>>)
            \o (IF langs \cap {"html", "css", "javascript"} # {}
                THEN RunWeb(FirstOf({"html"})) ELSE <<>>)
            \o (IF "java" \in langs
                THEN RunJava(Base(FirstOf({"java"})[1])) ELSE <<>>)
        Included(r) == "- ^" \o _md_escape_backticks(r.file) \o "^ (" \o r.language \o ")"
        Skipped ==
            IF sk = <<>> THEN <<>>
            ELSE <<"## Skipped files",
                   "- These files were skipped because they are not supported.">>
                 \o [i \in 1..Len(sk) |-> "  - ^" \o _md_escape_backticks(sk[i]) \o "^"]
                 \o <<"">>
        PerFile(r) ==
            <<"---", "", "## " \o Base(r.file),
              "- File path: ^" \o _md_escape_backticks(r.file) \o "^",
              "- Language: **" \o r.language \o "**">>
            \o (IF r.note # <<>> /\ r.note[1] # "" THEN <<"- Note: " \o r.note[1]>> ELSE <<>>)
            \o <<"">> \o StripText(r.documentation) \o <<"">>
        Lines(langs) ==
            <<"# Project README (Beginner-friendly)", "",
              "This documentation was generated automatically from the project source code.", "",
              "## Summary",
              "- Files documented: **" \o ToString(Len(rs)) \o "**",
              "- Files skipped (unsupported): **" \o ToString(Len(sk)) \o "**", "",
              "## 2) What it does",
              "- " \o Described(IF rs = <<>> THEN ""
                                ELSE _extract_first_value(rs[1].documentation,
                                                          "## 2) What it does")),
              "", "## 3) Requirements">>
            \o Bullets(OrNone(Reqs(langs))) \o <<"", "## 4) How to run">>
            \o HowToRun(langs)
            \o <<"## Files included">> \o [i \in 1..Len(rs) |-> Included(rs[i])] \o <<"">>
            \o Skipped
            \o <<"---", "", "# Detailed Documentation Per File", "">>
            \o Flatten([i \in 1..Len(rs) |-> PerFile(rs[i])], 1, Len(rs))
            \o <<"---", "", "## 7) Edge cases / notes",
                  "- This README is generated based only on the code that was included in the uploaded ZIP.",
                  "- If some required images/data/config files are missing, the project may not run fully.",
                  "">>
    IN  Join(Lines({rs[i].language : i \in 1..Len(rs)}))

\* generate_zip_download with a fault: SKIPPED_FILES.txt is always written
generate_zip_download_always_lists(rs, sk) ==
    [i \in 1..Len(rs) |-> [name |-> rs[i].file, data |-> rs[i].commented_code]]
    \o <<[name |-> "PROJECT_README.md", data |-> build_project_readme(rs, sk)]>>
    \o <<[name |-> "SKIPPED_FILES.txt", data |-> Join(sk)]>>

\* the entries generate_zip_download writes to the archive it returns, in order
generate_zip_download(rs, sk) ==
    [i \in 1..Len(rs) |-> [name |-> rs[i].file, data |-> rs[i].commented_code]]
    \o <<[name |-> "PROJECT_README.md", data |-> build_project_readme(rs, sk)]>>
    \o (IF sk # <<>> THEN <<[name |-> "SKIPPED_FILES.txt", data |-> Join(sk)]>> ELSE <<>>)

-----------------------------------------------------------------------------
(* llm_provider.py.  A JSON value is a record: a string holds its text, a  *)
(* number or null its literal, a list nothing, and an object its keys and  *)
(* their values in order.  json.loads is modelled on the documents of      *)
(* JsonLexicon: a text is one of them or a JSONDecodeError.                *)

JsonStr(text) == [type |-> "str", text |-> text, keys |-> <<>>, values |-> <<>>]
JsonInt(literal) == [type |-> "int", text |-> <<literal>>, keys |-> <<>>, values |-> <<>>]
JsonNull == [type |-> "null", text |-> <<"null">>, keys |-> <<>>, values |-> <<>>]
JsonList == [type |-> "list", text |-> <<"">>, keys |-> <<>>, values |-> <<>>]
JsonDict(keys, values) == [type |-> "dict", text |-> <<"">>, keys |-> keys, values |-> values]

JsonLexicon ==
    [ t \in { "{\"commented_code\": \"# adds\\nx = 1\\n\", \"documentation\": \"Adds.\"}",
              "{\"commented_code\": \"x = 1\"}",
              "{\"commented_code\": \"x = 1\", \"documentation\": null}",
              "{\"commented_code\": \"x = 1\", \"documentation\": \"Adds.\", \"notes\": 3}",
              "{}", "[]", "42", "null", "\"x = 1\"" } |->
        CASE t = "{\"commented_code\": \"# adds\\nx = 1\\n\", \"documentation\": \"Adds.\"}" ->
                JsonDict(<<"commented_code", "documentation">>,
                         <<JsonStr(<<"# adds", "x = 1", "">>), JsonStr(<<"Adds.">>)>>)
          [] t = "{\"commented_code\": \"x = 1\"}" ->
                JsonDict(<<"commented_code">>, <<JsonStr(<<"x = 1">>)>>)
          [] t = "{\"commented_code\": \"x = 1\", \"documentation\": null}" ->
                JsonDict(<<"commented_code", "documentation">>, <<JsonStr(<<"x = 1">>), JsonNull>>)
          [] t = "{\"commented_code\": \"x = 1\", \"documentation\": \"Adds.\", \"notes\": 3}" ->
                JsonDict(<<"commented_code", "documentation", "notes">>,
                         <<JsonStr(<<"x = 1">>), JsonStr(<<"Adds.">>), JsonInt("3")>>)
          [] t = "{}"   -> JsonDict(<<>>, <<>>)
          [] t = "[]"   -> JsonList
          [] t = "42"   -> JsonInt("42")
          [] t = "null" -> JsonNull
          [] OTHER      -> JsonStr(<<"x = 1">>) ]

\* json.loads(text): the value, or the JSONDecodeError raised
json_loads(text) ==
    IF StripStr(text) \in DOMAIN JsonLexicon
    THEN [value |-> JsonLexicon[StripStr(text)], raised |-> ""]
    ELSE [value |-> JsonNull, raised |-> "JSONDecodeError"]

_system_instructions ==
    "You are a senior software engineer and technical writer. "
    \o "Generate beginner-friendly code comments and documentation. "
    \o "Be accurate. Do not invent behavior that is not present in the code. "
    \o "Keep comments helpful and not excessive."

\* build_prompt(language, code, file_path), file_path <<>> for None
build_prompt(language, code, file_path) ==
    (IF file_path # <<>> /\ file_path[1] # "" THEN <<"File path: " \o file_path[1]>> ELSE <<>>)
    \o << "Language: " \o language,
          "Task:",
          "1) Return commented_code: the same code with meaningful inline comments and docstrings/JSDoc where appropriate.",
          "2) Return documentation: a short README-style explanation (what it does, inputs/outputs, edge cases, example usage).",
          "",
          "Output format:",
          "Return ONLY valid JSON with exactly these keys:",
          "{ \"commented_code\": \"...\", \"documentation\": \"...\" }",
          "",
          "CODE:",
          "-----" >>
    \o code \o <<"-----", "">>

\* what generate_with_llm returns when it could not parse the response
LlmFallback(code) ==
    JsonDict(<<"commented_code", "documentation">>,
             <<JsonStr(code), JsonStr(<<"LLM output parsing failed. Returned original code.">>)>>)

\* generate_with_llm(language, code, file_path) once client.responses.create
\* has answered with the response, or raised: the value returned, or the
\* exception that leaves the function
generate_with_llm(code, response) ==
    LET Returned(value) == [value |-> value, raised |-> ""]
        Recovered(parsed) ==
            IF parsed.raised = "" THEN Returned(parsed.value) ELSE Returned(LlmFallback(code))
        Braces(text, start, end) ==
            IF start # 0 /\ end # 0 /\ end > start
            THEN Recovered(json_loads(SubSeq(text, start, end)))
            ELSE Returned(LlmFallback(code))
        Parsed(text, parsed) ==
            IF parsed.raised = "" THEN Returned(parsed.value)
            ELSE Braces(text, IndexFrom(text, "{", 1), LastIndexOf(text, "}"))
        Answered(text) == Parsed(text, json_loads(text))
    IN  IF response.raised # "" THEN [value |-> JsonNull, raised |-> response.raised]
        ELSE Answered(StripStr(response.output_text))

-----------------------------------------------------------------------------
(* The state of the service and of the requests followed.                  *)

VARIABLES
    language,           \* the language tag of the source unit
    file_path,          \* its path
    code,               \* the text the latest run was given
    runs,               \* the number of runs made on the source unit
    commented_code,     \* the commented_code of the latest result
    documentation,      \* the documentation of the latest result
    note,               \* its note, <<>> when it has none
    raised,             \* the exception that left the latest call, "" for none
    first_code,         \* the commented_code of the first run
    use_ai,             \* the use_ai flag of the latest request
    libs_installed,     \* torch and transformers can be imported
    model_files,        \* MODEL_DIR holds the trained model
    model_loaded,       \* local_model's _tokenizer and _model are set
    model_outcome,      \* what the model generated when it last ran
    ai_invoked,         \* generate_comment was invoked by the latest request
    archive,            \* the members of the uploaded ZIP, in archive order
    preferred_language, \* the language the batch request prefers, <<>> for None
    zip_pos,            \* the member the loop of read_zip_and_generate is at
    results,            \* its results list
    skipped,            \* its skipped list
    generated,          \* the paths it passed to generate_any, in order
    valid_zip,          \* the uploaded bytes are a ZIP archive
    download,           \* the entries of the archive generate_zip_download returned
    llm_request,        \* what generate_with_llm sent to the hosted model, <<>> for nothing
    llm_response,       \* what the hosted model answers a request with
    llm_result,         \* what generate_with_llm returned or raised, <<>> before it ran
    guessed_language,   \* what guess_language_from_filename returned, in <<>>; <<>> before it ran
    _tokenizer,         \* local_model._tokenizer: <<>> for None, else <<the tokenizer object>>
    _model,             \* local_model._model: <<>> for None, else <<the model object>>
    eval_applied,       \* the model objects load_model has called eval() on
    callers,            \* the threads in load_model: where each is, what it read and returned
    requests,           \* the requests of the rule-based generator, each with its result once served
    grouping            \* the import-grouping loop of _python_add_comments: where it is, lines, i, start, out

vars == <<language, file_path, code, runs, commented_code, documentation, note, raised,
          first_code, use_ai, libs_installed, model_files, model_loaded, model_outcome,
          ai_invoked, archive, preferred_language, zip_pos, results, skipped, generated,
          valid_zip, download, llm_request, llm_response, llm_result, guessed_language,
          _tokenizer, _model, eval_applied, callers, requests, grouping>>

unitVars  == <<language, file_path, code>>
modelVars == <<libs_installed, model_files, model_loaded, model_outcome>>
zipVars   == <<archive, preferred_language, zip_pos, results, skipped, generated,
               valid_zip, download>>
llmVars   == <<llm_request, llm_response, llm_result>>
loadVars  == <<_tokenizer, _model, eval_applied, callers>>

Languages == {"python", "javascript", "html", "css", "java"}

\* the language tags of the requests: the supported ones, one that is not, and none
LanguageTags == Languages \cup {"ruby", ""}

\* the lines the input texts are made of, per language
InputLines(lang) ==
    CASE lang = "python" ->
            {"", "import os", "def add(a, b):", "    return a + b",
             "# Beginner-friendly comments (auto-added)"}
      [] lang = "javascript" -> {"", "function add(a, b) {", "  return a + b;"}
      [] lang = "html" -> {"", "<form id=\"f\">", "  <input required>"}
      [] lang = "css" -> {"", "body {", "  padding: 1px;"}
      [] lang = "java" -> {"", "public class Account {", "  if (amount <= 0) return false;"}
      [] OTHER -> {"", "puts 1", "  "}

\* with crlf, every line break of the text is "\r\n"
WithLineBreaks(text, crlf) ==
    IF crlf THEN [i \in 1..Len(text) |-> IF i < Len(text) THEN text[i] \o "\r" ELSE text[i]]
    ELSE text

\* the texts of at most n pieces in a language, with either kind of line break
InputTexts(lang, n) ==
    {WithLineBreaks(t, crlf) :
        t \in UNION {[1..k -> InputLines(lang)] : k \in 1..n},
        crlf \in BOOLEAN}

FilePaths == {"", "src/app.py", "a\n## Requirements\nb.py"}

NoOutcome == [text |-> "", raised |-> ""]

\* what the model may generate: summaries, or an exception while generating
ModelOutcomes ==
    {[text |-> t, raised |-> ""] :
        t \in {"", "  Adds two numbers and returns the sum.  ", "Returns the sum of a and b",
               "Adds a and b; returns it", "Maps {a, b} to a sum", "return the sum of a and b"}}
    \cup {[text |-> "", raised |-> "out of memory"]}

\* no source unit is being annotated
UnitIdle ==
    /\ language = ""
    /\ file_path = ""
    /\ code = <<"">>

\* no result yet
NoResult ==
    /\ runs = 0
    /\ commented_code = <<"">>
    /\ documentation = <<"">>
    /\ note = NoNote
    /\ raised = ""
    /\ first_code = <<"">>
    /\ ai_invoked = FALSE

\* a server without the optional model
ModelIdle ==
    /\ use_ai = FALSE
    /\ libs_installed = FALSE
    /\ model_files = FALSE
    /\ model_loaded = FALSE
    /\ model_outcome = NoOutcome

\* no batch request
ZipIdle ==
    /\ archive = <<>>
    /\ preferred_language = <<>>
    /\ zip_pos = 1
    /\ results = <<>>
    /\ skipped = <<>>
    /\ generated = <<>>
    /\ valid_zip = TRUE
    /\ download = <<>>

NoResponse == [output_text |-> "", raised |-> ""]

\* no request to the hosted model
LlmIdle ==
    /\ llm_request = <<>>
    /\ llm_response = NoResponse
    /\ llm_result = <<>>

\* _python_add_comments is not in its import-grouping loop
NoGrouping == [at |-> "idle", lines |-> <<>>, i |-> 0, start |-> 0, out |-> <<>>]

\* no thread is in load_model, and nothing is cached
LoadIdle ==
    /\ _tokenizer = <<>>
    /\ _model = <<>>
    /\ eval_applied = {}
    /\ callers = <<>>

-----------------------------------------------------------------------------
(* Repeated annotation: a source unit is annotated by the rule-based       *)
(* generator, and the annotated copy is submitted again, as a user         *)
(* re-running the tool on its output does.                                 *)

Init ==
    /\ language \in LanguageTags
    /\ file_path \in FilePaths
    /\ code \in InputTexts(language, MaxLines)
    /\ NoResult
    /\ ModelIdle
    /\ ZipIdle
    /\ LlmIdle
    /\ guessed_language = <<>>
    /\ LoadIdle
    /\ requests = <<>>
    /\ grouping = NoGrouping

\* one run of the rule-based generator: on the input at first, then on its own output
Annotate ==
    /\ runs < MaxRuns
    /\ raised = ""
    /\ \E input \in {IF runs = 0 THEN code ELSE commented_code} :
       \E out \in {generate_rule_based(language, input, file_path)} :
           /\ code' = input
           /\ commented_code' = out.commented_code
           /\ documentation' = out.documentation
           /\ raised' = out.raised
           /\ first_code' = IF runs = 0 THEN out.commented_code ELSE first_code
    /\ runs' = runs + 1
    /\ UNCHANGED <<language, file_path, note, use_ai, ai_invoked>>
    /\ UNCHANGED modelVars
    /\ UNCHANGED zipVars
    /\ UNCHANGED llmVars
    /\ UNCHANGED guessed_language
    /\ UNCHANGED loadVars
    /\ UNCHANGED requests
    /\ UNCHANGED grouping

Next == Annotate

Spec == Init /\ [][Next]_vars

-----------------------------------------------------------------------------
(* Python sources: generate_python_docs on texts that parse and texts that *)
(* do not, among them a call of split whose count is a literal longer than *)
(* int() converts: the parser refuses such a literal too.                  *)

RECURSIVE Repeat(_, _)
\* s * n
Repeat(s, n) ==
    IF n = 0 THEN ""
    ELSE IF n % 2 = 1 THEN s \o Repeat(s \o s, n \div 2)
    ELSE Repeat(s \o s, n \div 2)

PythonLines ==
    {"", "import os", "    import os", "def add(a, b):", "    return a + b", "def f(:",
     "parts = text.split(sep, 2)",
     "parts = text.split(sep, " \o Repeat("1", INT_MAX_STR_DIGITS + 1) \o ")"}

PythonTexts ==
    {WithLineBreaks(t, crlf) :
        t \in UNION {[1..k -> PythonLines] : k \in 1..MaxPythonLines},
        crlf \in BOOLEAN}

InitPython ==
    /\ language = "python"
    /\ file_path \in FilePaths
    /\ code \in PythonTexts
    /\ NoResult
    /\ ModelIdle
    /\ ZipIdle
    /\ LlmIdle
    /\ guessed_language = <<>>
    /\ LoadIdle
    /\ requests = <<>>
    /\ grouping = NoGrouping

\* one call of generate_python_docs on the source unit
GeneratePythonDocs ==
    /\ runs = 0
    /\ \E out \in {generate_python_docs(code, file_path)} :
           /\ commented_code' = out.commented_code
           /\ documentation' = out.documentation
           /\ raised' = out.raised
    /\ runs' = runs + 1
    /\ UNCHANGED <<first_code, note, use_ai, ai_invoked>>
    /\ UNCHANGED unitVars
    /\ UNCHANGED modelVars
    /\ UNCHANGED zipVars
    /\ UNCHANGED llmVars
    /\ UNCHANGED guessed_language
    /\ UNCHANGED loadVars
    /\ UNCHANGED requests
    /\ UNCHANGED grouping

NextPython == GeneratePythonDocs

SpecPython == InitPython /\ [][NextPython]_vars

\* a Python source unit of at most n of the lines given, pasted without a path
PastedPython(lines, n) ==
    /\ language = "python"
    /\ file_path = ""
    /\ code \in {Append(t, "") : t \in UNION {[1..k -> lines] : k \in 1..n}}
    /\ NoResult
    /\ ModelIdle
    /\ ZipIdle
    /\ LlmIdle
    /\ guessed_language = <<>>
    /\ LoadIdle
    /\ requests = <<>>
    /\ grouping = NoGrouping

\* sources with more than one def or class header, and imports before them
MaxHeaderLines == 4

HeaderLines == {"import os", "class Account:", "    x = 1", "def add(a, b):", "    return a + b"}

InitHeaders == PastedPython(HeaderLines, MaxHeaderLines)

SpecHeaders == InitHeaders /\ [][NextPython]_vars

\* sources that do not parse, with import, def, class and loop lines
MaxFallbackLines == 3

FallbackLines == {"import os", "def f(:", "class Account:", "for item in items:", "    x = 1"}

InitFallback == PastedPython(FallbackLines, MaxFallbackLines)

SpecFallback == InitFallback /\ [][NextPython]_vars

\* _clean_existing_auto_headers on its own, on texts with marker lines in
\* either case, blank lines and indented lines, ending with a newline or not
MaxCleanLines == 3

CleanLines ==
    {"", "x = 1", "  y = 2", "# Beginner-friendly comments (auto-added)",
     "# PROFESSIONAL BEGINNER-FRIENDLY NOTES"}

InitClean ==
    /\ language = ""
    /\ file_path = ""
    /\ \E t \in UNION {[1..k -> CleanLines] : k \in 1..MaxCleanLines} :
            code \in {t, Append(t, "")}
    /\ NoResult
    /\ ModelIdle
    /\ ZipIdle
    /\ LlmIdle
    /\ guessed_language = <<>>
    /\ LoadIdle
    /\ requests = <<>>
    /\ grouping = NoGrouping

\* one call of _clean_existing_auto_headers on the text
CleanHeaders ==
    /\ runs = 0
    /\ commented_code' = _clean_existing_auto_headers(code)
    /\ runs' = runs + 1
    /\ UNCHANGED <<documentation, raised, first_code, note, use_ai, ai_invoked>>
    /\ UNCHANGED unitVars
    /\ UNCHANGED modelVars
    /\ UNCHANGED zipVars
    /\ UNCHANGED llmVars
    /\ UNCHANGED guessed_language
    /\ UNCHANGED loadVars
    /\ UNCHANGED requests
    /\ UNCHANGED grouping

NextClean == CleanHeaders

SpecClean == InitClean /\ [][NextClean]_vars

\* sources with returns inside and outside the body of an if
MaxReturnLines == 3

ReturnLines == {"return", "if x < 0:", "    return", "x = 1", "    return None"}

InitReturns == PastedPython(ReturnLines, MaxReturnLines)

SpecReturns == InitReturns /\ [][NextPython]_vars

-----------------------------------------------------------------------------
(* Single requests: generate_any on a source unit, on a server with or     *)
(* without the optional model, with and without use_ai.                    *)

InitAny ==
    /\ language \in LanguageTags
    /\ file_path \in FilePaths
    /\ code \in InputTexts(language, MaxRequestLines)
    /\ NoResult
    /\ use_ai = FALSE
    /\ libs_installed \in BOOLEAN
    /\ model_files \in BOOLEAN
    /\ model_loaded = FALSE
    /\ model_outcome = NoOutcome
    /\ ZipIdle
    /\ LlmIdle
    /\ guessed_language = <<>>
    /\ LoadIdle
    /\ requests = <<>>
    /\ grouping = NoGrouping

\* the outcomes of the model when a request reaches it: it generates only when
\* it is asked, imported and loaded
OutcomesFor(u) ==
    IF u /\ libs_installed /\ (model_loaded \/ model_files) THEN ModelOutcomes
    ELSE {model_outcome}

\* one call of generate_any on the source unit
GenerateAny ==
    /\ runs < MaxRuns
    /\ \E u \in BOOLEAN : \E outcome \in OutcomesFor(u) :
       \E out \in {generate_any(language, code, file_path, u, libs_installed,
                                model_loaded, model_files, outcome)} :
              /\ use_ai' = u
              /\ model_outcome' = outcome
              /\ commented_code' = out.commented_code
              /\ documentation' = out.documentation
              /\ note' = out.note
              /\ raised' = out.raised
              /\ ai_invoked' = out.invoked
              /\ model_loaded' = out.loaded
    /\ runs' = runs + 1
    /\ UNCHANGED <<first_code, libs_installed, model_files>>
    /\ UNCHANGED unitVars
    /\ UNCHANGED zipVars
    /\ UNCHANGED llmVars
    /\ UNCHANGED guessed_language
    /\ UNCHANGED loadVars
    /\ UNCHANGED requests
    /\ UNCHANGED grouping

NextAny == GenerateAny

SpecAny == InitAny /\ [][NextAny]_vars

-----------------------------------------------------------------------------
(* Batch requests: read_zip_and_generate on an uploaded ZIP, one member of *)
(* the archive per step of its loop.                                       *)

MemberNames == {"a.py", "b.txt", "c.java", "D.PY", "docs/", "PROJECT_README.md"}

\* z.read(info).decode(...): the text stored under a name
FileContent(name) ==
    CASE name = "a.py" -> <<"import os", "">>
      [] name = "D.PY" -> <<"def add(a, b):", "    return a + b", "">>
      [] name = "c.java" -> <<"public class Account {", "}", "">>
      [] name = "b.txt" -> <<"notes", "">>
      [] OTHER -> <<"">>

Archives == UNION {[1..n -> MemberNames] : n \in 1..MaxMembers}

\* in a batch the model, where it is installed, gives one of these
ZipModelOutcomes ==
    {[text |-> t, raised |-> ""] :
        t \in {"Adds two numbers and returns the sum.", "return the sum of a and b"}}

InitZip ==
    /\ UnitIdle
    /\ NoResult
    /\ use_ai \in BOOLEAN
    /\ libs_installed \in (IF use_ai THEN BOOLEAN ELSE {FALSE})
    /\ model_files = libs_installed
    /\ model_loaded = FALSE
    /\ model_outcome = NoOutcome
    /\ valid_zip \in BOOLEAN
    /\ archive \in (IF valid_zip THEN Archives ELSE {<<>>})
    /\ preferred_language \in {<<>>, <<"python">>}
    /\ zip_pos = 1
    /\ results = <<>>
    /\ skipped = <<>>
    /\ generated = <<>>
    /\ download = <<>>
    /\ LlmIdle
    /\ guessed_language = <<>>
    /\ LoadIdle
    /\ requests = <<>>
    /\ grouping = NoGrouping

\* ZipInfo.is_dir()
is_dir(filename) == EndsWith(filename, "/")

\* zipfile.ZipFile(io.BytesIO(zip_bytes), "r") on bytes that are no archive
ZipOpenFails ==
    /\ ~valid_zip
    /\ raised = ""
    /\ raised' = "BadZipFile: File is not a zip file"
    /\ UNCHANGED <<runs, commented_code, documentation, note, first_code, use_ai, ai_invoked>>
    /\ UNCHANGED unitVars
    /\ UNCHANGED modelVars
    /\ UNCHANGED zipVars
    /\ UNCHANGED llmVars
    /\ UNCHANGED guessed_language
    /\ UNCHANGED loadVars
    /\ UNCHANGED requests
    /\ UNCHANGED grouping

\* the loop of read_zip_and_generate is at a member
AtMember == valid_zip /\ raised = "" /\ zip_pos <= Len(archive)

\* if info.is_dir(): continue
ZipSkipDir ==
    /\ AtMember
    /\ is_dir(archive[zip_pos])
    /\ zip_pos' = zip_pos + 1
    /\ UNCHANGED <<runs, commented_code, documentation, note, raised, first_code, use_ai,
                   ai_invoked, archive, preferred_language, results, skipped, generated,
                   valid_zip, download>>
    /\ UNCHANGED unitVars
    /\ UNCHANGED modelVars
    /\ UNCHANGED llmVars
    /\ UNCHANGED guessed_language
    /\ UNCHANGED loadVars
    /\ UNCHANGED requests
    /\ UNCHANGED grouping

\* if ext not in ALL_SUPPORTED_EXTS: skipped.append(path); continue
ZipSkipUnsupported ==
    /\ AtMember
    /\ ~is_dir(archive[zip_pos])
    /\ SplitextExt(Lower(archive[zip_pos])) \notin ALL_SUPPORTED_EXTS
    /\ skipped' = Append(skipped, archive[zip_pos])
    /\ zip_pos' = zip_pos + 1
    /\ UNCHANGED <<runs, commented_code, documentation, note, raised, first_code, use_ai,
                   ai_invoked, archive, preferred_language, results, generated,
                   valid_zip, download>>
    /\ UNCHANGED unitVars
    /\ UNCHANGED modelVars
    /\ UNCHANGED llmVars
    /\ UNCHANGED guessed_language
    /\ UNCHANGED loadVars
    /\ UNCHANGED requests
    /\ UNCHANGED grouping

\* lang = preferred_language or guess_language_from_filename(path) or "unknown"
ZipLanguage(preferred, path) ==
    LET Or(guessed) ==
            IF preferred # <<>> /\ preferred[1] # "" THEN preferred[1]
            ELSE IF guessed # <<>> THEN guessed[1] ELSE "unknown"
    IN  Or(guess_language_from_filename(path))

\* the rest of the loop body: generate_any on the member, and its results entry
ZipGenerate ==
    /\ AtMember
    /\ ~is_dir(archive[zip_pos])
    /\ SplitextExt(Lower(archive[zip_pos])) \in ALL_SUPPORTED_EXTS
    /\ \E outcome \in (IF use_ai /\ libs_installed /\ (model_loaded \/ model_files)
                       THEN ZipModelOutcomes ELSE {model_outcome}) :
       \E path \in {archive[zip_pos]} :
       \E lang \in {ZipLanguage(preferred_language, path)} :
       \E out \in {generate_any(lang, FileContent(path), path, use_ai, libs_installed,
                                model_loaded, model_files, outcome)} :
              /\ generated' = Append(generated, path)
              /\ model_outcome' = outcome
              /\ model_loaded' = out.loaded
              /\ ai_invoked' = out.invoked
              /\ raised' = out.raised
              /\ results' =
                    IF out.raised # "" THEN results
                    ELSE Append(results, [file           |-> path,
                                          language       |-> lang,
                                          commented_code |-> out.commented_code,
                                          documentation  |-> out.documentation,
                                          note           |-> out.note])
    /\ zip_pos' = zip_pos + 1
    /\ UNCHANGED <<runs, commented_code, documentation, note, first_code, use_ai,
                   libs_installed, model_files, archive, preferred_language, skipped,
                   valid_zip, download>>
    /\ UNCHANGED unitVars
    /\ UNCHANGED llmVars
    /\ UNCHANGED guessed_language
    /\ UNCHANGED loadVars
    /\ UNCHANGED requests
    /\ UNCHANGED grouping

\* after the loop: generate_zip_download writes the archive it returns
ZipDownload ==
    /\ valid_zip
    /\ raised = ""
    /\ zip_pos > Len(archive)
    /\ download = <<>>
    /\ download' = generate_zip_download(results, skipped)
    /\ UNCHANGED <<runs, commented_code, documentation, note, raised, first_code, use_ai,
                   ai_invoked, archive, preferred_language, zip_pos, results, skipped,
                   generated, valid_zip>>
    /\ UNCHANGED unitVars
    /\ UNCHANGED modelVars
    /\ UNCHANGED llmVars
    /\ UNCHANGED guessed_language
    /\ UNCHANGED loadVars
    /\ UNCHANGED requests
    /\ UNCHANGED grouping

NextZip == ZipOpenFails \/ ZipSkipDir \/ ZipSkipUnsupported \/ ZipGenerate \/ ZipDownload

SpecZip == InitZip /\ [][NextZip]_vars

\* the loop of read_zip_and_generate over archives of files only, the same
\* file more than once among them
BatchMembers == {"a.py", "D.PY", "c.java", "b.txt"}

InitBatch ==
    /\ UnitIdle
    /\ NoResult
    /\ use_ai \in BOOLEAN
    /\ libs_installed \in (IF use_ai THEN BOOLEAN ELSE {FALSE})
    /\ model_files = libs_installed
    /\ model_loaded = FALSE
    /\ model_outcome = NoOutcome
    /\ valid_zip = TRUE
    /\ archive \in UNION {[1..n -> BatchMembers] : n \in 1..MaxMembers}
    /\ preferred_language \in {<<>>, <<"python">>}
    /\ zip_pos = 1
    /\ results = <<>>
    /\ skipped = <<>>
    /\ generated = <<>>
    /\ download = <<>>
    /\ LlmIdle
    /\ guessed_language = <<>>
    /\ LoadIdle
    /\ requests = <<>>
    /\ grouping = NoGrouping

NextBatch == ZipSkipUnsupported \/ ZipGenerate

SpecBatch == InitBatch /\ [][NextBatch]_vars

-----------------------------------------------------------------------------
(* Hosted model: generate_with_llm on a source unit, for the answers the   *)
(* hosted model may give: JSON documents alone or with text around them,   *)
(* text that is no JSON, and a failed call.                                *)

LlmResponses ==
    {[output_text |-> before \o core \o after, raised |-> ""] :
        before \in {"", "  ", "Here is the JSON: "},
        core \in DOMAIN JsonLexicon \cup {"", "{not json}", "I cannot help with that."},
        after \in {"", " Done.", " {}"}}
    \cup {[output_text |-> "", raised |-> "APIConnectionError: Connection error."]}

InitLlm ==
    /\ language = "python"
    /\ file_path \in FilePaths
    /\ code \in InputTexts(language, MaxRequestLines)
    /\ NoResult
    /\ ModelIdle
    /\ ZipIdle
    /\ llm_request = <<>>
    /\ llm_response \in LlmResponses
    /\ llm_result = <<>>
    /\ guessed_language = <<>>
    /\ LoadIdle
    /\ requests = <<>>
    /\ grouping = NoGrouping

\* model = os.environ.get("DOCGEN_MODEL", "gpt-4o") and the arguments of
\* client.responses.create
LlmRequest(docgen_model) ==
    [model        |-> IF docgen_model # <<>> THEN docgen_model[1] ELSE "gpt-4o",
     instructions |-> _system_instructions,
     input        |-> build_prompt(language, code, <<file_path>>)]

\* one call of generate_with_llm on the source unit
GenerateWithLlm ==
    /\ llm_result = <<>>
    /\ \E docgen_model \in {<<>>, <<"gpt-4o-mini">>} :
            llm_request' = <<LlmRequest(docgen_model)>>
    /\ llm_result' = <<generate_with_llm(code, llm_response)>>
    /\ UNCHANGED <<runs, commented_code, documentation, note, raised, first_code, use_ai,
                   ai_invoked, llm_response>>
    /\ UNCHANGED unitVars
    /\ UNCHANGED modelVars
    /\ UNCHANGED zipVars
    /\ UNCHANGED guessed_language
    /\ UNCHANGED loadVars
    /\ UNCHANGED requests
    /\ UNCHANGED grouping

NextLlm == GenerateWithLlm

SpecLlm == InitLlm /\ [][NextLlm]_vars

-----------------------------------------------------------------------------
(* File names: guess_language_from_filename on names made of a stem and an *)
(* extension, in either case, among them names without an extension, names *)
(* whose only dots are leading ones or belong to a directory.              *)

FileStems == {"", "a", "src/App.v2", "x.py/readme"}

FileExts ==
    {"", ".py", ".PY", ".pyc", ".js", ".Js", ".jsx", ".html", ".HTML", ".htm", ".HTM",
     ".css", ".Css", ".java", ".JAVA", ".txt", ".md"}

InitGuess ==
    /\ language = ""
    /\ \E stem \in FileStems : \E ext \in FileExts : file_path = stem \o ext
    /\ code = <<"">>
    /\ NoResult
    /\ ModelIdle
    /\ ZipIdle
    /\ LlmIdle
    /\ guessed_language = <<>>
    /\ LoadIdle
    /\ requests = <<>>
    /\ grouping = NoGrouping

\* one call of guess_language_from_filename on the name
GuessLanguage ==
    /\ guessed_language = <<>>
    /\ guessed_language' = <<guess_language_from_filename(file_path)>>
    /\ UNCHANGED <<runs, commented_code, documentation, note, raised, first_code, use_ai,
                   ai_invoked>>
    /\ UNCHANGED unitVars
    /\ UNCHANGED modelVars
    /\ UNCHANGED zipVars
    /\ UNCHANGED llmVars
    /\ UNCHANGED loadVars
    /\ UNCHANGED requests
    /\ UNCHANGED grouping

NextGuess == GuessLanguage

SpecGuess == InitGuess /\ [][NextGuess]_vars

-----------------------------------------------------------------------------
(* local_model.py: concurrent first calls of load_model.  Each caller is a *)
(* thread of the interpreter; a switch of threads can fall between any two *)
(* reads or writes of the module's globals, so that the test of line 18    *)
(* and the return of line 22 each read _tokenizer and _model in two steps. *)
(* The objects that from_pretrained makes for a caller are named by the    *)
(* caller; eval_applied holds the models that line 21 has reached.         *)

MaxCallers == 3

Callers == 1..MaxCallers

\* a caller that has entered load_model and has read nothing yet
Entered == [at |-> "test _tokenizer", tokenizer |-> <<>>, returned |-> <<>>]

InitLoad ==
    /\ language = ""
    /\ file_path = ""
    /\ code = <<"">>
    /\ NoResult
    /\ ModelIdle
    /\ ZipIdle
    /\ LlmIdle
    /\ guessed_language = <<>>
    /\ _tokenizer = <<>>
    /\ _model = <<>>
    /\ eval_applied = {}
    /\ callers = [t \in Callers |-> Entered]
    /\ requests = <<>>
    /\ grouping = NoGrouping

\* what a step of load_model leaves alone
LoadFrame ==
    /\ UNCHANGED <<runs, commented_code, documentation, note, raised, first_code, use_ai,
                   ai_invoked>>
    /\ UNCHANGED unitVars
    /\ UNCHANGED modelVars
    /\ UNCHANGED zipVars
    /\ UNCHANGED llmVars
    /\ UNCHANGED guessed_language
    /\ UNCHANGED requests
    /\ UNCHANGED grouping

\* caller t moves on to the step named
GoTo(t, step) == callers' = [callers EXCEPT ![t].at = step]

\* if _tokenizer is None ...
TestTokenizer(t) ==
    /\ callers[t].at = "test _tokenizer"
    /\ GoTo(t, IF _tokenizer = <<>> THEN "load tokenizer" ELSE "test _model")
    /\ UNCHANGED <<_tokenizer, _model, eval_applied>>
    /\ LoadFrame

\* ... or _model is None:
TestModel(t) ==
    /\ callers[t].at = "test _model"
    /\ GoTo(t, IF _model = <<>> THEN "load tokenizer" ELSE "read _tokenizer")
    /\ UNCHANGED <<_tokenizer, _model, eval_applied>>
    /\ LoadFrame

\* _tokenizer = AutoTokenizer.from_pretrained(str(MODEL_DIR))
LoadTokenizer(t) ==
    /\ callers[t].at = "load tokenizer"
    /\ _tokenizer' = <<t>>
    /\ GoTo(t, "load model")
    /\ UNCHANGED <<_model, eval_applied>>
    /\ LoadFrame

\* _model = AutoModelForSeq2SeqLM.from_pretrained(str(MODEL_DIR))
LoadModel(t) ==
    /\ callers[t].at = "load model"
    /\ _model' = <<t>>
    /\ GoTo(t, "eval")
    /\ UNCHANGED <<_tokenizer, eval_applied>>
    /\ LoadFrame

\* _model.eval(), on the object that _model names at this moment
EvalModel(t) ==
    /\ callers[t].at = "eval"
    /\ eval_applied' = eval_applied \cup {_model[1]}
    /\ GoTo(t, "read _tokenizer")
    /\ UNCHANGED <<_tokenizer, _model>>
    /\ LoadFrame

\* return _tokenizer, ...
ReadTokenizer(t) ==
    /\ callers[t].at = "read _tokenizer"
    /\ callers' = [callers EXCEPT ![t].at = "read _model", ![t].tokenizer = _tokenizer]
    /\ UNCHANGED <<_tokenizer, _model, eval_applied>>
    /\ LoadFrame

\* ... _model: the pair returned, and whether eval() has been applied to its
\* model when the caller gets it
ReturnPair(t) ==
    /\ callers[t].at = "read _model"
    /\ callers' = [callers EXCEPT ![t].at = "returned",
                                  ![t].returned = <<[tokenizer |-> callers[t].tokenizer,
                                                     model |-> _model,
                                                     in_eval |-> _model # <<>> /\ _model[1] \in eval_applied]>>]
    /\ UNCHANGED <<_tokenizer, _model, eval_applied>>
    /\ LoadFrame

\* one step of caller t in load_model
LoadStep(t) ==
    \/ TestTokenizer(t)
    \/ TestModel(t)
    \/ LoadTokenizer(t)
    \/ LoadModel(t)
    \/ EvalModel(t)
    \/ ReadTokenizer(t)
    \/ ReturnPair(t)

NextLoad == \E t \in Callers : LoadStep(t)

SpecLoad == InitLoad /\ [][NextLoad]_vars

-----------------------------------------------------------------------------
(* local_model.py: a series of load_model calls, one after the other.  A   *)
(* from_pretrained call reads MODEL_DIR and can raise (fault names the one *)
(* that does, "" for none); the objects a call makes are named by the      *)
(* number of the call.  callers is the record of the calls made: what each *)
(* has loaded, the exception that left it and the pair it returned.        *)

MaxCalls == 5

LoadFaults == {"", "tokenizer", "model"}

\* load_model with a fault: the test of the cache is left out, and every call
\* loads
load_model_reloading(tokenizer, model, evals, call, fault) ==
    IF fault = "tokenizer"
    THEN [tokenizer |-> tokenizer, model |-> model, evals |-> evals, loads |-> {},
          raised |-> "OSError", returned |-> <<>>]
    ELSE IF fault = "model"
    THEN [tokenizer |-> <<call>>, model |-> model, evals |-> evals,
          loads |-> {"tokenizer"}, raised |-> "OSError", returned |-> <<>>]
    ELSE [tokenizer |-> <<call>>, model |-> <<call>>, evals |-> evals \cup {call},
          loads |-> {"tokenizer", "model"}, raised |-> "",
          returned |-> <<[tokenizer |-> <<call>>, model |-> <<call>>]>>]

\* load_model(): the globals and the models in eval mode after the call, what
\* the call has loaded, and the pair it returns or the exception that leaves it
load_model_call(tokenizer, model, evals, call, fault) ==
    IF tokenizer = <<>> \/ model = <<>>
    THEN IF fault = "tokenizer"
         THEN [tokenizer |-> tokenizer, model |-> model, evals |-> evals, loads |-> {},
               raised |-> "OSError", returned |-> <<>>]
         ELSE IF fault = "model"
         THEN [tokenizer |-> <<call>>, model |-> model, evals |-> evals,
               loads |-> {"tokenizer"}, raised |-> "OSError", returned |-> <<>>]
         ELSE [tokenizer |-> <<call>>, model |-> <<call>>, evals |-> evals \cup {call},
               loads |-> {"tokenizer", "model"}, raised |-> "",
               returned |-> <<[tokenizer |-> <<call>>, model |-> <<call>>]>>]
    ELSE [tokenizer |-> tokenizer, model |-> model, evals |-> evals, loads |-> {},
          raised |-> "", returned |-> <<[tokenizer |-> tokenizer, model |-> model]>>]

InitCalls ==
    /\ language = ""
    /\ file_path = ""
    /\ code = <<"">>
    /\ NoResult
    /\ ModelIdle
    /\ ZipIdle
    /\ LlmIdle
    /\ guessed_language = <<>>
    /\ LoadIdle
    /\ requests = <<>>
    /\ grouping = NoGrouping

\* one call of load_model, from its entry to its return or its exception
CallLoadModel ==
    /\ Len(callers) < MaxCalls
    /\ \E fault \in LoadFaults :
          LET done == load_model_call(_tokenizer, _model, eval_applied, Len(callers) + 1, fault)
          IN  /\ _tokenizer' = done.tokenizer
              /\ _model' = done.model
              /\ eval_applied' = done.evals
              /\ callers' = Append(callers, [loads |-> done.loads, raised |-> done.raised,
                                             returned |-> done.returned])
    /\ LoadFrame

NextCalls == CallLoadModel

SpecCalls == InitCalls /\ [][NextCalls]_vars

-----------------------------------------------------------------------------
(* generators.py: the import-grouping loop of _python_add_comments, step   *)
(* by step.  grouping holds the loop's lines, i, start and out and where   *)
(* the loop is: at the test of the outer while ("outer"), at the test of   *)
(* the inner while ("inner"), or past the loop ("done").  i and start      *)
(* count from 0 as in the source, so that lines[i] is lines[i + 1] here.   *)

MaxImportLines == 3

ImportLines == {"", "x = 1", "import os", "    import os", "from os import path"}

\* the texts given to _python_add_comments, ending with a newline or not
ImportTexts == UNION {[1..k -> ImportLines] : k \in 1..(MaxImportLines + 1)}

InitImports ==
    /\ language = "python"
    /\ file_path = ""
    /\ code = <<"">>
    /\ NoResult
    /\ ModelIdle
    /\ ZipIdle
    /\ LlmIdle
    /\ guessed_language = <<>>
    /\ LoadIdle
    /\ requests = <<>>
    /\ grouping = NoGrouping

\* what a step of the loop leaves alone
GroupingFrame ==
    /\ UNCHANGED <<runs, commented_code, documentation, note, raised, first_code, use_ai,
                   ai_invoked>>
    /\ UNCHANGED <<language, file_path>>
    /\ UNCHANGED modelVars
    /\ UNCHANGED zipVars
    /\ UNCHANGED llmVars
    /\ UNCHANGED guessed_language
    /\ UNCHANGED loadVars
    /\ UNCHANGED requests

\* the loop's test: i < len(lines), and for the inner while that lines[i] is an
\* import line as well
InLines == grouping.i < Len(grouping.lines)

AtImportLine == InLines /\ IsImportLine(grouping.lines[grouping.i + 1])

\* _python_add_comments is called on a text, up to the loop: the text is
\* cleaned and split, and out holds the header
EnterGrouping ==
    /\ grouping.at = "idle"
    /\ \E text \in ImportTexts :
          /\ code' = text
          /\ grouping' = [at    |-> "outer",
                          lines |-> Splitlines(_clean_existing_auto_headers(text)),
                          i     |-> 0,
                          start |-> 0,
                          out   |-> SplitNewline("# File: " \o BaseOr(file_path, "pasted_code"))
                                      \o <<"">>]
    /\ GroupingFrame

\* the outer while finds an import line: start = i, and the inner while begins
StartRun ==
    /\ grouping.at = "outer"
    /\ AtImportLine
    /\ grouping' = [grouping EXCEPT !.at = "inner", !.start = grouping.i]
    /\ UNCHANGED code
    /\ GroupingFrame

\* the inner while: i += 1
AdvanceRun ==
    /\ grouping.at = "inner"
    /\ AtImportLine
    /\ grouping' = [grouping EXCEPT !.i = grouping.i + 1]
    /\ UNCHANGED code
    /\ GroupingFrame

\* after the inner while: the comment, lines[start:i] and a blank line; continue
CloseRun ==
    /\ grouping.at = "inner"
    /\ ~AtImportLine
    /\ grouping' = [grouping EXCEPT
                        !.at = "outer",
                        !.out = grouping.out
                                \o <<"# Imports: bring in libraries this file depends on.">>
                                \o SubSeq(grouping.lines, grouping.start + 1, grouping.i)
                                \o <<"">>]
    /\ UNCHANGED code
    /\ GroupingFrame

\* the outer while finds another line: out.append(lines[i]); i += 1
CopyLine ==
    /\ grouping.at = "outer"
    /\ InLines
    /\ ~AtImportLine
    /\ grouping' = [grouping EXCEPT !.i = grouping.i + 1,
                                    !.out = Append(grouping.out, grouping.lines[grouping.i + 1])]
    /\ UNCHANGED code
    /\ GroupingFrame

\* the outer while ends
LeaveGrouping ==
    /\ grouping.at = "outer"
    /\ ~InLines
    /\ grouping' = [grouping EXCEPT !.at = "done"]
    /\ UNCHANGED code
    /\ GroupingFrame

NextImports ==
    \/ EnterGrouping
    \/ StartRun
    \/ AdvanceRun
    \/ CloseRun
    \/ CopyLine
    \/ LeaveGrouping

\* the interpreter goes on with the loop as long as it has a step to take
SpecImports == InitImports /\ [][NextImports]_vars /\ WF_vars(NextImports)

-----------------------------------------------------------------------------
(* Concurrent requests of the rule-based generator.  generators.py keeps   *)
(* no module-level object that a request writes: AUTO_MARKERS, the         *)
(* compiled patterns and _HTML_TAG_HINTS are only read, and no function    *)
(* declares a global.  A request is therefore served in one step, whatever *)
(* the requests served before it and those still waiting.                  *)

MaxRequests == 3

\* the source units requested
RequestedUnits ==
    {[language |-> "python", code |-> <<"import os", "">>, file_path |-> ""],
     [language |-> "python", code |-> <<"import os", "">>, file_path |-> "src/app.py"],
     [language |-> "python", code |-> <<"def add(a, b):", "    return a + b", "">>, file_path |-> ""],
     [language |-> "javascript", code |-> <<"function add(a, b) {", "  return a + b;", "}", "">>,
      file_path |-> "src/app.js"],
     [language |-> "html", code |-> <<"<form id=\"f\">", "">>, file_path |-> ""],
     [language |-> "", code |-> <<"puts 1", "">>, file_path |-> ""]}

\* a request that waits to be served
Waiting(unit) == [unit |-> unit, result |-> <<>>]

\* the requests served so far
Served == {i \in 1..Len(requests) : requests[i].result # <<>>}

\* generate_rule_based with a fault: the list of output lines is kept between
\* requests, and still holds the lines of a request served earlier
ServeRuleBased_remembering(unit, earlier) ==
    LET out == generate_rule_based(unit.language, unit.code, unit.file_path)
    IN  IF earlier = {} THEN out
        ELSE [out EXCEPT !.commented_code =
                    Splitlines((CHOOSE r \in earlier : TRUE).result[1].commented_code) \o @]

\* generate_rule_based(language, code, file_path) for one request; of the
\* requests served earlier it reads nothing
ServeRuleBased(unit, earlier) ==
    generate_rule_based(unit.language, unit.code, unit.file_path)

InitRequests ==
    /\ UnitIdle
    /\ NoResult
    /\ ModelIdle
    /\ ZipIdle
    /\ LlmIdle
    /\ guessed_language = <<>>
    /\ LoadIdle
    /\ requests \in [1..MaxRequests -> {Waiting(unit) : unit \in RequestedUnits}]
    /\ grouping = NoGrouping

\* one of the waiting requests is served
ServeRequest ==
    /\ \E i \in 1..Len(requests) :
            /\ requests[i].result = <<>>
            /\ requests' = [requests EXCEPT ![i].result =
                                <<ServeRuleBased(requests[i].unit, {requests[j] : j \in Served})>>]
    /\ runs' = runs + 1
    /\ UNCHANGED <<commented_code, documentation, note, raised, first_code, use_ai, ai_invoked>>
    /\ UNCHANGED unitVars
    /\ UNCHANGED modelVars
    /\ UNCHANGED zipVars
    /\ UNCHANGED llmVars
    /\ UNCHANGED guessed_language
    /\ UNCHANGED loadVars
    /\ UNCHANGED grouping

NextRequests == ServeRequest

SpecRequests == InitRequests /\ [][NextRequests]_vars

-----------------------------------------------------------------------------
(* The properties stated of the program.                                   *)

\* the result of the rule-based generator on the source unit
RuleBased == generate_rule_based(language, code, file_path)

\* the lines of a are lines of b, in their order
RECURSIVE IsSubsequence(_, _)
IsSubsequence(a, b) ==
    IF a = <<>> THEN TRUE
    ELSE IF b = <<>> THEN FALSE
    ELSE IF a[1] = b[1] THEN IsSubsequence(Tail(a), Tail(b))
    ELSE IsSubsequence(a, Tail(b))

\* the number of 'File:' header lines of a text
FileHeaderCount(text) == Cardinality({i \in 1..Len(text) : Contains(text[i], "File: ")})

\* C1: annotating annotated output changes nothing: after a second run, on the
\* first run's commented_code, the commented_code is that of the first run,
\* in each language.
C1_AnnotateIdempotent ==
    runs >= 2 /\ raised = "" => commented_code = first_code

\* C2: every line of the input, after CRLF normalisation, is a line of
\* commented_code, unmodified, and the input lines keep their order.
C2_InputLinesKept ==
    runs >= 1 /\ raised = "" =>
        IsSubsequence(Splitlines(CrlfToLf(code)), Splitlines(commented_code))

\* C3: after any number k >= 1 of successive runs the output holds exactly one
\* 'File:' header line and has as many lines as after the first run.
C3_OneHeaderNoGrowth ==
    runs >= 1 /\ raised = "" =>
        /\ FileHeaderCount(commented_code) = 1
        /\ Len(commented_code) = Len(first_code)

\* the documentation carries the parse-error note
HasParseNote(doc) ==
    \E i \in 1..Len(doc) : Contains(doc[i], "Syntax/indentation error: ")

\* C4: generate_python_docs raises on no text; the documentation carries the
\* note 'Syntax/indentation error: ...' exactly when the text does not parse.
C4_InvalidPythonNoted ==
    runs >= 1 =>
        /\ raised = ""
        /\ AstParseError(CrlfToLf(code)) # "" <=> HasParseNote(documentation)

\* the extensions the batch is stated to process
C5_Exts == {".py", ".js", ".html", ".htm", ".css", ".java"}

C5_Routed(name) == SplitextExt(Lower(name)) \in C5_Exts

C5_Unrouted(name) == ~C5_Routed(name)

C5_IsFile(name) == ~is_dir(name)

\* the non-directory members the loop has passed, in archive order
C5_Files == SelectSeq(SubSeq(archive, 1, zip_pos - 1), C5_IsFile)

\* C5: of the non-directory members passed, those whose lower-cased extension
\* is one of .py, .js, .html, .htm, .css, .java are the results, the others
\* are the skipped, both in archive order; the generator was given the
\* processed members and no skipped one; a.py, b.txt, c.java gives two
\* processed entries and one skipped entry.
C5_ZipRouting ==
    raised = "" =>
        /\ [i \in 1..Len(results) |-> results[i].file] = SelectSeq(C5_Files, C5_Routed)
        /\ skipped = SelectSeq(C5_Files, C5_Unrouted)
        /\ generated = SelectSeq(C5_Files, C5_Routed)
        /\ \A i \in 1..Len(generated) : \A j \in 1..Len(skipped) : generated[i] # skipped[j]
        /\ archive = <<"a.py", "b.txt", "c.java">> /\ zip_pos > Len(archive) =>
                Len(results) = 2 /\ Len(skipped) = 1

C5_ThreeMembersRouted ==
    /\ archive = <<"a.py", "b.txt", "c.java">>
    /\ zip_pos > Len(archive)
    /\ [i \in 1..Len(results) |-> results[i].file] = <<"a.py", "c.java">>
    /\ skipped = <<"b.txt">>

\* the model was asked and answered with a summary
AiAnswered ==
    use_ai /\ libs_installed /\ model_loaded /\ model_outcome.raised = ""

\* a summary with a semicolon or a brace, or one that starts with a code keyword
C6_LooksLikeCode(summary) ==
    LET Is(t) ==
            \/ Contains(t, ";") \/ Contains(t, "{") \/ Contains(t, "}")
            \/ \E w \in CodeKeywords :
                    StartsWith(Lower(t), w) /\ WordBoundary(t, Len(w) + 1)
    IN  Is(StripStr(summary))

\* the texts of the returned dict
ResultTexts == commented_code \o documentation \o note

\* C6: a summary of the model with a semicolon or a brace, or starting with a
\* code keyword, is discarded: the documentation is the rule-based
\* documentation, a note is set, and the summary is in no text of the result.
C6_BadSummaryDiscarded ==
    runs >= 1 /\ AiAnswered /\ C6_LooksLikeCode(model_outcome.text) =>
        /\ raised = ""
        /\ documentation = RuleBased.documentation
        /\ note # NoNote
        /\ \A i \in 1..Len(ResultTexts) :
                ~Contains(ResultTexts[i], StripStr(model_outcome.text))

C6_KeywordSummaryIgnored ==
    /\ runs >= 1
    /\ AiAnswered
    /\ model_outcome.text = "return the sum of a and b"
    /\ note = <<"AI was requested, but the AI summary looked like raw code, so it was ignored.">>

\* the source unit is def add(a, b): / return a + b, annotated once as Python
C7_AddSubmitted ==
    /\ language = "python"
    /\ runs = 1
    /\ Splitlines(CrlfToLf(code)) = <<"def add(a, b):", "    return a + b">>

\* a comment line describes the returned value as made of the two operands
C7_DescribesOperands ==
    \E i \in 1..Len(commented_code) :
        /\ StartsWith(StripStr(commented_code[i]), "#")
        /\ \E phrase \in {"calculated value", "a + b", "a and b", "sum"} :
                Contains(commented_code[i], phrase)

\* the documentation lists the function add
C7_DocEnumeratesAdd ==
    \E i \in 1..Len(documentation) : Contains(documentation[i], "add")

\* C7 as stated: for def add(a, b): / return a + b both lines are retained, a
\* comment describes the returned value as a combination of the two
\* operands, and the documentation enumerates the one function.
C7_AddDescribedAsStated ==
    C7_AddSubmitted =>
        /\ IsSubsequence(<<"def add(a, b):", "    return a + b">>, commented_code)
        /\ C7_DescribesOperands
        /\ C7_DocEnumeratesAdd

\* C7: for def add(a, b): / return a + b both lines are retained under the
\* 'File:' header; the one comment inserted is the generic Return comment,
\* and the documentation is that of any Python file: it enumerates nothing
\* of the code.
C7_AddAnnotated ==
    C7_AddSubmitted =>
        /\ raised = ""
        /\ commented_code =
                SplitNewline("# File: " \o BaseOr(file_path, "pasted_code")) \o
                << "",
                   "def add(a, b):",
                   "    # Return: send the result back to whoever called this function.",
                   "    return a + b", "" >>
        /\ documentation = _python_docs(<<"">>, file_path)
        /\ ~C7_DescribesOperands
        /\ ~C7_DocEnumeratesAdd

C7_AddReturnCommented ==
    /\ C7_AddSubmitted
    /\ Len(commented_code) = 6
    /\ commented_code[4] = "    # Return: send the result back to whoever called this function."

\* the AI path could not be taken, raised, or gave a summary that is rejected
C8_AiUnavailable == ~libs_installed
C8_AiRaised      == libs_installed /\ (~model_loaded \/ model_outcome.raised # "")
C8_AiRejected    == AiAnswered /\ _looks_like_bad_ai_summary(model_outcome.text)

\* C8: with use_ai no exception of the AI path leaves generate_any, and when
\* the model is unavailable, raises, or is rejected, the result is the
\* rule-based commented_code and documentation with a note.
C8_AiPathNeverFails ==
    runs >= 1 /\ use_ai =>
        /\ raised = ""
        /\ C8_AiUnavailable \/ C8_AiRaised \/ C8_AiRejected =>
                /\ commented_code = RuleBased.commented_code
                /\ documentation = RuleBased.documentation
                /\ note # NoNote

C8_ModelRaisedAndNoted ==
    /\ runs >= 1
    /\ use_ai
    /\ libs_installed
    /\ model_outcome.raised # ""
    /\ raised = ""
    /\ note = <<"AI failed; used rule-based output instead. Error: "
                \o "Local model not available: " \o model_outcome.raised>>

\* C9: the commented_code of generate_any is the rule-based one whatever
\* use_ai, the availability and the output of the model; without use_ai the
\* result is the rule-based one, with no note; an accepted summary is put, as
\* a block, before the unchanged rule-based documentation.
C9_RuleBasedIndependent ==
    runs >= 1 =>
        /\ commented_code = RuleBased.commented_code
        /\ ~use_ai => documentation = RuleBased.documentation /\ note = NoNote
        /\ AiAnswered /\ ~_looks_like_bad_ai_summary(model_outcome.text) =>
                documentation =
                    << "## AI One-line Summary (optional)",
                       "- " \o StripStr(model_outcome.text), "" >>
                    \o RuleBased.documentation

C9_SummaryAccepted ==
    /\ runs >= 1
    /\ AiAnswered
    /\ model_outcome.text = "  Adds two numbers and returns the sum.  "
    /\ documentation[2] = "- Adds two numbers and returns the sum."
    /\ note = NoNote

\* C10: generate_comment is invoked only when use_ai is true and the model
\* files are available.
C10_InvokedOnlyWithModelFiles ==
    ai_invoked => use_ai /\ model_files

\* C11: whatever the language tag and the input, commented_code ends with
\* exactly one newline: its last character is a newline, and the character
\* before that one, if there is one, is not.
EndsWithOneNewline(text) ==
    /\ Len(text) >= 2
    /\ Last(text) = ""
    /\ Len(text) > 2 => text[Len(text) - 1] # ""

C11_OneTrailingNewline ==
    runs >= 1 /\ raised = "" => EndsWithOneNewline(commented_code)

\* an unsupported tag, and an input that ends with blank lines
C11_BlankTailOfUnknownLanguage ==
    /\ runs = 1
    /\ language = "ruby"
    /\ Len(code) = 3 /\ code[2] = "  " /\ code[3] = ""
    /\ commented_code = <<"puts 1", "">>

\* C12: every comment line the Python rewriter inserts stands immediately
\* before the line it describes and carries exactly that line's leading
\* whitespace.  The inputs of SpecPython hold no comment lines, so the comment
\* lines of the output below its header are the inserted ones.
InsertedComments(text) ==
    {i \in 2..Len(text) : StartsWith(StripStr(text[i]), "#")}

C12_CommentsCarryIndent ==
    runs >= 1 /\ raised = "" =>
        \A i \in InsertedComments(commented_code) :
            /\ i < Len(commented_code)
            /\ ~IsBlank(commented_code[i + 1])
            /\ Indent(commented_code[i]) = Indent(commented_code[i + 1])

\* C13: for Python input that parses, every line that matches a trigger (an
\* import line, a class or def header, a for or while line, a try or except
\* line, a return line, a line with a list-append or dict-get call) has a
\* comment inserted immediately before it.  The imports of one block share the
\* comment that precedes the block.
IsTriggerLine(line) ==
    \/ StartsWithAny(StripStr(line), {"import ", "from ", "def ", "class ", "for ", "while ",
                                      "try:", "except", "return"})
    \/ ContainsAny(line, {".append(", ".get("})

C13_TriggersCommented ==
    runs >= 1 /\ raised = "" /\ AstParseError(CrlfToLf(code)) = "" =>
        \A i \in 1..Len(commented_code) :
            IsTriggerLine(commented_code[i]) =>
                /\ i > 1
                /\ \/ StartsWith(StripStr(commented_code[i - 1]), "#")
                   \/ IsImportLine(commented_code[i]) /\ IsImportLine(commented_code[i - 1])

\* C14: in a batch every processed member is dispatched by its own extension:
\* the language recorded in its results entry, with which it was annotated, is
\* the one its extension maps to, whatever preferred_language is.
C14_DispatchedByExtension ==
    \A i \in 1..Len(results) :
        /\ <<results[i].language>> = guess_language_from_filename(results[i].file)
        /\ results[i].commented_code =
              generate_rule_based(results[i].language, FileContent(results[i].file),
                                  results[i].file).commented_code

\* a member the batch processes: a file with a supported extension
C15_Processed(name) == ~is_dir(name) /\ SplitextExt(Lower(name)) \in ALL_SUPPORTED_EXTS

C15_Unsupported(name) == ~is_dir(name) /\ ~C15_Processed(name)

C15_Named(name) == {i \in 1..Len(download) : download[i].name = name}

\* C15: the archive generate_zip_download returns holds exactly one entry per
\* processed member, under its path and with its commented_code, one
\* PROJECT_README.md, and a SKIPPED_FILES.txt if and only if a member was
\* skipped, which lists the skipped paths in archive order; neither generated
\* name is the name of a processed member.
C15_DownloadContents ==
    download # <<>> =>
        /\ [i \in 1..Len(results) |-> results[i].file] = SelectSeq(archive, C15_Processed)
        /\ skipped = SelectSeq(archive, C15_Unsupported)
        /\ Len(download) = Len(results) + 1 + (IF skipped = <<>> THEN 0 ELSE 1)
        /\ \A i \in 1..Len(results) :
                /\ download[i] = [name |-> results[i].file, data |-> results[i].commented_code]
                /\ download[i].name \notin {"PROJECT_README.md", "SKIPPED_FILES.txt"}
        /\ Cardinality(C15_Named("PROJECT_README.md")) = 1
        /\ Cardinality(C15_Named("SKIPPED_FILES.txt")) = (IF skipped = <<>> THEN 0 ELSE 1)
        /\ \A i \in C15_Named("SKIPPED_FILES.txt") : download[i].data = skipped

\* an upload that itself holds a PROJECT_README.md
C15_ReadmeMemberSkipped ==
    /\ archive = <<"a.py", "PROJECT_README.md", "c.java">>
    /\ [i \in 1..Len(download) |-> download[i].name]
            = <<"a.py", "c.java", "PROJECT_README.md", "SKIPPED_FILES.txt">>
    /\ download[4].data = <<"PROJECT_README.md">>

\* a mapping with exactly the two string fields commented_code and documentation
C16_TwoStringFields(value) ==
    /\ value.type = "dict"
    /\ Len(value.keys) = 2
    /\ {value.keys[1], value.keys[2]} = {"commented_code", "documentation"}
    /\ value.values[1].type = "str"
    /\ value.values[2].type = "str"

\* the response text is a JSON document that is such a mapping
C16_WellFormed(response) ==
    /\ response.raised = ""
    /\ json_loads(StripStr(response.output_text)).raised = ""
    /\ C16_TwoStringFields(json_loads(StripStr(response.output_text)).value)

\* C16: generate_with_llm always returns a mapping with exactly the two
\* string fields commented_code and documentation; when the response text of
\* the hosted model is not such a JSON object, it is the fallback: the
\* original code, unchanged, and a documentation that tells of the parse
\* failure.
C16_LlmReturnsTwoStrings ==
    llm_result # <<>> =>
        /\ llm_result[1].raised = ""
        /\ C16_TwoStringFields(llm_result[1].value)
        /\ ~C16_WellFormed(llm_response) => llm_result[1].value = LlmFallback(code)

\* C17: every failure of a batch request ends in a fallback value: whatever
\* the uploaded bytes, the members and the language, no exception leaves
\* generate_any, read_zip_and_generate or generate_zip_download.
C17_NoExceptionLeaves == raised = ""

\* the language stated for an extension, <<>> for None
C18_Stated(ext) ==
    CASE ext = ".py"   -> <<"python">>
      [] ext = ".js"   -> <<"javascript">>
      [] ext \in {".html", ".htm"} -> <<"html">>
      [] ext = ".css"  -> <<"css">>
      [] ext = ".java" -> <<"java">>
      [] OTHER         -> <<>>

\* C18: guess_language_from_filename returns python for .py, javascript for
\* .js, html for .html and .htm, css for .css, java for .java, whatever the
\* case of the extension, and None for every other extension; the batch
\* accepts exactly the extensions for which it returns a language.  The
\* extension of a name is the one os.path.splitext gives: a name that is only
\* an extension has none.
C18_GuessByExtension ==
    guessed_language # <<>> =>
        /\ \A stem \in FileStems \ {""} : \A ext \in FileExts :
                file_path = stem \o ext => guessed_language[1] = C18_Stated(Lower(ext))
        /\ \A ext \in FileExts :
                file_path = ext => guessed_language[1] = <<>>
        /\ SplitextExt(Lower(file_path)) \in ALL_SUPPORTED_EXTS <=> guessed_language[1] # <<>>
        /\ ALL_SUPPORTED_EXTS = {ext \in FileExts : C18_Stated(ext) # <<>>}

\* an extension in upper case after a stem that holds a dot
C18_UpperCaseHtm ==
    /\ file_path = "src/App.v2.HTM"
    /\ guessed_language = << <<"html">> >>

\* the section headers stated, in their order
C19_Headers ==
    <<"## What it does", "## Requirements", "## How to run", "## Explanation of logic",
      "## Example input/output", "## Edge cases / notes">>

C19_LinesThatAre(text, line) == {i \in 1..Len(text) : text[i] = line}

\* C19: whatever the language tag and the input, the documentation of the
\* rule-based generator begins with its one title line and then holds the six
\* section headers What it does, Requirements, How to run, Explanation of
\* logic, Example input/output, Edge cases / notes, each once, in that order.
C19_SixSectionsInOrder ==
    runs >= 1 /\ raised = "" =>
        /\ {i \in 1..Len(documentation) : StartsWith(documentation[i], "# ")} = {1}
        /\ \A k \in 1..Len(C19_Headers) :
                Cardinality(C19_LinesThatAre(documentation, C19_Headers[k])) = 1
        /\ \A k \in 1..(Len(C19_Headers) - 1) :
                \A i \in C19_LinesThatAre(documentation, C19_Headers[k]) :
                \A j \in C19_LinesThatAre(documentation, C19_Headers[k + 1]) : 1 < i /\ i < j

\* the six sections are in place whenever the file path holds no line break
C19_SixSectionsOfOneLinePath ==
    Len(SplitNewline(file_path)) = 1 => C19_SixSectionsInOrder

\* every caller of load_model has returned
C20_AllReturned == \A t \in DOMAIN callers : callers[t].at = "returned"

\* C20: however concurrent first calls of load_model interleave, every
\* caller returns a tokenizer and a model that are both loaded, the model
\* having had eval() applied by then, and when all callers have returned the
\* module holds a loaded tokenizer and a loaded model that eval() was applied to.
C20_RaceOnlyDuplicatesLoading ==
    /\ \A t \in DOMAIN callers :
            callers[t].returned # <<>> =>
                /\ callers[t].returned[1].tokenizer # <<>>
                /\ callers[t].returned[1].model # <<>>
                /\ callers[t].returned[1].in_eval
    /\ callers # <<>> /\ C20_AllReturned =>
            /\ _tokenizer # <<>>
            /\ _model # <<>>
            /\ _model[1] \in eval_applied

\* what remains of C20 without the eval() of the returned model: both
\* members of every returned pair are loaded, and the final cache is loaded
\* and its model has had eval() applied
C20_LoadedPairs ==
    /\ \A t \in DOMAIN callers :
            callers[t].returned # <<>> =>
                /\ callers[t].returned[1].tokenizer # <<>>
                /\ callers[t].returned[1].model # <<>>
    /\ callers # <<>> /\ C20_AllReturned =>
            /\ _tokenizer # <<>>
            /\ _model # <<>>
            /\ _model[1] \in eval_applied

\* C21: the result of generate_rule_based for a request is determined by the
\* request's language, code and file path alone: whatever was served before
\* and in whatever order, two requests with equal arguments have equal
\* commented_code and documentation.
C21_ResultOfArgumentsAlone ==
    \A i \in Served : \A j \in Served :
        requests[i].unit = requests[j].unit =>
            /\ requests[i].result[1].commented_code = requests[j].result[1].commented_code
            /\ requests[i].result[1].documentation = requests[j].result[1].documentation

\* two requests with equal arguments have been served, and one of another
\* source unit with the same file path too
C21_EqualRequestsServed ==
    /\ Served = {1, 2, 3}
    /\ requests[1].unit = requests[3].unit
    /\ requests[2].unit # requests[1].unit
    /\ requests[2].unit.file_path = requests[1].unit.file_path
    /\ requests[1].result[1].documentation # <<"">>

\* the results entry that generate_any on the member alone would give: on its
\* language, its decoded text and its path, with use_ai, in a process that
\* has loaded no model yet and whose model answers with outcome
C22_Alone(entry, outcome) ==
    LET Entry(out) ==
            /\ out.raised = ""
            /\ entry = [file           |-> entry.file,
                        language       |-> entry.language,
                        commented_code |-> out.commented_code,
                        documentation  |-> out.documentation,
                        note           |-> out.note]
    IN  Entry(generate_any(entry.language, FileContent(entry.file), entry.file, use_ai,
                           libs_installed, FALSE, model_files, outcome))

C22_Supported(name) == SplitextExt(Lower(name)) \in ALL_SUPPORTED_EXTS /\ ~is_dir(name)

\* C22: every results entry of a batch is what generate_any gives on that
\* member alone, whatever the other members of the archive and their order,
\* and the entries are in archive order.
C22_IndependentRuns ==
    raised = "" =>
        /\ \A i \in 1..Len(results) :
                /\ results[i].language = ZipLanguage(preferred_language, results[i].file)
                /\ \E outcome \in ZipModelOutcomes \cup {NoOutcome} : C22_Alone(results[i], outcome)
        /\ [i \in 1..Len(results) |-> results[i].file]
                = SelectSeq(SubSeq(archive, 1, zip_pos - 1), C22_Supported)

\* the same file twice in a batch with the model: the second run finds the
\* model loaded, and both entries carry the summary
C22_SameMemberTwiceSummarised ==
    /\ archive = <<"D.PY", "c.java", "D.PY">>
    /\ Len(results) = 3
    /\ model_loaded
    /\ results[1] = results[3]
    /\ results[1].documentation[1] = "## AI One-line Summary (optional)"

\* the line below line i of the annotated text, without its indentation
C23_Below(i) == IF i < Len(commented_code) THEN StripStr(commented_code[i + 1]) ELSE ""

\* C23: a comment '# Function ^add()^: ...' is emitted immediately above the
\* header of def add, and a comment '# Class ^Account^: ...' immediately
\* above the header of class Account.
C23_HeaderCommentAboveItsHeader ==
    runs >= 1 /\ raised = "" =>
        \A i \in 1..Len(commented_code) :
            /\ StartsWith(StripStr(commented_code[i]), "# Function ^add()^:")
                    => C23_Below(i) = "def add(a, b):"
            /\ StartsWith(StripStr(commented_code[i]), "# Class ^Account^:")
                    => C23_Below(i) = "class Account:"

\* line i of the annotated text is a return in the body of the if whose
\* header is the line above the comment that precedes it
C24_GuardedReturn(i) ==
    /\ i - 2 >= 1
    /\ StartsWith(StripStr(commented_code[i]), "return")
    /\ StartsWith(StripStr(commented_code[i - 2]), "if ")
    /\ Len(Indent(commented_code[i])) > Len(Indent(commented_code[i - 2]))

\* C24: a comment '# Stop here because ...' is emitted only immediately
\* before a return that is the body of an if; a return that no condition
\* guards gets no early-return reason.
C24_ReasonOnlyOnGuardedReturn ==
    runs >= 1 /\ raised = "" =>
        \A i \in 1..Len(commented_code) :
            StartsWith(StripStr(commented_code[i]), "# Stop here because")
                => i < Len(commented_code) /\ C24_GuardedReturn(i + 1)

\* a marker is a substring of the line, in any case
C25_Marked(line) == \E k \in 1..Len(AUTO_MARKERS) : Contains(Lower(line), Lower(AUTO_MARKERS[k]))

\* line i is in a run: it is a marker line, or a marker line above it is
\* followed by no blank line before line i (the blank line ends the run and
\* belongs to it)
C25_InRun(lines, i) ==
    \/ C25_Marked(lines[i])
    \/ \E j \in 1..(i - 1) :
            /\ C25_Marked(lines[j])
            /\ \A k \in (j + 1)..(i - 1) : C25_Marked(lines[k]) \/ StripStr(lines[k]) # ""

\* the lines outside the runs, in order
C25_Outside(lines) ==
    LET keep == {i \in 1..Len(lines) : ~C25_InRun(lines, i)}
        Nth(n) == CHOOSE i \in keep : Cardinality({j \in keep : j < i}) = n - 1
    IN  [n \in 1..Cardinality(keep) |-> lines[Nth(n)]]

\* C25: _clean_existing_auto_headers removes exactly the runs from a marker
\* line to the next blank line or the end of the text; the lines outside the
\* runs are kept unmodified and in order, and no line of the result holds a
\* marker.
C25_ExactlyTheRunsRemoved ==
    runs >= 1 =>
        /\ Splitlines(commented_code) = C25_Outside(Splitlines(code))
        /\ \A i \in 1..Len(commented_code) : ~C25_Marked(commented_code[i])

\* no line of the cleaned text holds a marker
C25_NoMarkerLeft ==
    runs >= 1 => \A i \in 1..Len(commented_code) : ~C25_Marked(commented_code[i])

\* every line of text that starts with one of the prefixes has a comment line
\* immediately above it; the import lines of one run share the comment above
\* the run
C26_Commented(text, prefixes) ==
    \A i \in 1..Len(text) :
        StartsWithAny(StripStr(text[i]), prefixes) =>
            /\ i > 1
            /\ \/ StartsWith(StripStr(text[i - 1]), "#")
               \/ IsImportLine(text[i]) /\ IsImportLine(text[i - 1])

\* C26: when the Python source does not parse, the rewriter raises nothing,
\* its line scan still puts a comment above every import, def, class and loop
\* line, and every input line is a line of the output, in order.
C26_FallbackStillComments ==
    runs >= 1 /\ AstParseError(CrlfToLf(code)) # "" =>
        /\ raised = ""
        /\ C26_Commented(commented_code, {"import ", "from ", "def ", "class ", "for ", "while "})
        /\ IsSubsequence(Splitlines(CrlfToLf(code)), Splitlines(commented_code))

\* the import and loop lines of a source that does not parse are commented
C26_FallbackCommentsImportsAndLoops ==
    runs >= 1 /\ AstParseError(CrlfToLf(code)) # "" =>
        /\ raised = ""
        /\ C26_Commented(commented_code, {"import ", "from ", "for ", "while "})

\* the calls of the series that have returned a pair
C27_Completed == {i \in 1..Len(callers) : callers[i].raised = ""}

\* C27: in a series of load_model calls made one after the other, after the
\* first call that completes no later call loads the tokenizer or the model
\* again, and every later call returns the pair the first completed call
\* returned; after a call that an exception has left the cache is not
\* complete, and the next call loads the tokenizer again.
C27_LoadedOnce ==
    \A i \in 1..Len(callers) :
        /\ (\E j \in C27_Completed : j < i) =>
                /\ callers[i].loads = {}
                /\ callers[i].raised = ""
                /\ callers[i].returned = callers[Min(C27_Completed)].returned
        /\ callers[i].raised # "" =>
                /\ i = Len(callers) => _tokenizer = <<>> \/ _model = <<>>
                /\ i < Len(callers) =>
                        \/ "tokenizer" \in callers[i + 1].loads
                        \/ callers[i + 1].raised # "" /\ callers[i + 1].loads = {}

\* a call has failed after it had loaded the tokenizer, the next call has
\* loaded both and returned them, and a third call has returned the cached pair
C27_FailedThenLoadedThenCached ==
    /\ Len(callers) >= 3
    /\ callers[1].raised # "" /\ callers[1].loads = {"tokenizer"}
    /\ callers[2].raised = "" /\ callers[2].loads = {"tokenizer", "model"}
    /\ callers[3].loads = {} /\ callers[3].returned = callers[2].returned

\* the parse that _python_add_comments uses, of the text it has cleaned, failed
C28_RewriterParseFailed ==
    ~_safe_parse_python(_clean_existing_auto_headers(CrlfToLf(code))).ok

\* C28: within one call of generate_python_docs the documentation carries the
\* note 'Syntax/indentation error: ...' exactly when the parse that the
\* rewriter has used failed.
C28_SameParseOutcome ==
    runs >= 1 /\ raised = "" =>
        (HasParseNote(documentation) <=> C28_RewriterParseFailed)

\* the note is in the documentation exactly when the text given to
\* generate_python_docs, with its line ends normalised, does not parse
C28_NoteOfUncleanedParse ==
    runs >= 1 /\ raised = "" =>
        (HasParseNote(documentation) <=> AstParseError(CrlfToLf(code)) # "")

\* the lines of the PROJECT_README.md of the archive returned
C29_Readme == download[Min(C15_Named("PROJECT_README.md"))].data

\* the project description the README is stated to carry
C29_Description ==
    LET OrDefault(guess) ==
            IF guess # "" THEN guess
            ELSE "This project contains code files that work together."
    IN  IF results = <<>> THEN OrDefault("")
        ELSE OrDefault(_extract_first_value(results[1].documentation, "## What it does"))

\* C29: the bullet below the README's heading '## 2) What it does' is the first
\* bullet of the 'What it does' section of the documentation of the first
\* processed file; it is the default sentence only when no file was processed
\* or that section has no bullet.
C29_DescriptionOfFirstFile ==
    download # <<>> =>
        \E i \in 1..(Len(C29_Readme) - 1) :
            /\ C29_Readme[i] = "## 2) What it does"
            /\ C29_Readme[i + 1] = "- " \o C29_Description

\* the bullet below the README's heading '## 2) What it does' is the default
\* sentence
C29_DefaultDescription ==
    download # <<>> =>
        \E i \in 1..(Len(C29_Readme) - 1) :
            /\ C29_Readme[i] = "## 2) What it does"
            /\ C29_Readme[i + 1] = "- This project contains code files that work together."

\* the header that out holds when the import-grouping loop begins
C30_Header == <<"# File: pasted_code", "">>

\* a line of a run: one that starts with 'import ' or 'from ', as it stands or
\* after its leading white space
C30_RunLine(line, stripped) ==
    StartsWithAny(IF stripped THEN StripStr(line) ELSE line, {"import ", "from "})

\* the lines from line k on, each once and in order, with the comment before
\* the first line of each maximal run and a blank line after its last
RECURSIVE C30_Grouped(_, _, _)
C30_Grouped(lines, k, stripped) ==
    IF k > Len(lines) THEN <<>>
    ELSE LET run   == C30_RunLine(lines[k], stripped)
             first == run /\ (k = 1 \/ ~C30_RunLine(lines[k - 1], stripped))
             last  == run /\ (k = Len(lines) \/ ~C30_RunLine(lines[k + 1], stripped))
         IN  (IF first THEN <<"# Imports: bring in libraries this file depends on.">> ELSE <<>>)
                \o <<lines[k]>>
                \o (IF last THEN <<"">> ELSE <<>>)
                \o C30_Grouped(lines, k + 1, stripped)

\* C30 as stated: the import-grouping loop ends for every input, and what it
\* has then appended to out is every line of the cleaned input, once and in
\* order, with one '# Imports:' comment before and one blank line after each
\* maximal run of consecutive lines that start with 'import ' or 'from ', and
\* nothing else.
C30_GroupsLinesStartingWithImport ==
    /\ <>(grouping.at = "done")
    /\ [](grouping.at = "done" =>
            grouping.out = C30_Header \o C30_Grouped(grouping.lines, 1, FALSE))

\* C30: the import-grouping loop ends for every input, and what it has then
\* appended to out is every line of the cleaned input, once and in order, with
\* one '# Imports:' comment before and one blank line after each maximal run
\* of consecutive lines that start, after their leading white space, with
\* 'import ' or 'from ', and nothing else.
C30_GroupsStrippedImportLines ==
    /\ <>(grouping.at = "done")
    /\ [](grouping.at = "done" =>
            grouping.out = C30_Header \o C30_Grouped(grouping.lines, 1, TRUE))

\* the loop has ended on a text with two runs, one of them indented, and a
\* line between them
C30_TwoRunsGrouped ==
    /\ grouping.at = "done"
    /\ grouping.lines = <<"import os", "x = 1", "    import os">>
    /\ Len(grouping.out) = 2 + 3 + 4

\* when the loop has ended, out is the header and what ImportPass gives
C30_LoopIsImportPass ==
    grouping.at = "done" => grouping.out = C30_Header \o ImportPass(grouping.lines, 1)

=============================================================================
